---- MODULE Spec2Model ----
(***************************************************************************)
(* ByteShop agentic checkout orchestrator: catalog, cart ledger, session   *)
(* state store, payment-method vault, mandate creation, credential         *)
(* realization (server-tokenize variant) and settlement.                   *)
(*                                                                         *)
(* Money: catalog prices and cart totals are kept in mills (1/1000 USD),   *)
(* so Math.round(x * 100) is a real rounding step; mandate and charge      *)
(* amounts are in cents.  Time is in minutes.                              *)
(***************************************************************************)
EXTENDS Integers, Sequences, FiniteSets, TLC

VARIABLES
  stock,               \* products Map: product id -> units in stock
  carts,               \* carts Map: cart id (1, 2, ...) -> Cart
  store,               \* session store: session id -> SessionEntry or Null
  paymentMethodVault,  \* vault: session id -> payment-method id or Null
  now,                 \* Date.now(), in minutes
  chatActive,          \* session id -> a chat request has handed out the tools
  charges,             \* PaymentIntents created at the payment processor
  inflight,            \* paymentIntents.create calls awaiting their response
  mandates,            \* createMandate requests received by the wallet authority
  pmIssued,            \* pmIssued[k]: time at which payment method k was tokenized
  pending,             \* Redis-backed cart repo: calls between their get and set
  tokens,              \* checkout tokens minted so far, each with the
                       \* checkout id and the time it was minted for
  runs,                \* completeCheckout calls: where each one stands
  browserInstance,     \* browser-automation.ts: the module's browserInstance
  browsers,            \* Chromium processes launched and not closed
  launched,            \* number of chromium.launch calls that succeeded
  magicLinks,          \* auth.ts (signed tokens): the tokens mailed so far
  signIns,             \* the tokens setSession was reached with, in order
  tokenStore,          \* auth.ts (token store): the module's tokenStore
  uuids,               \* number of tokens randomUUID has produced
  signInsStored        \* as signIns, for tokens of the token store

\* state of the browser checkout
browserVars == <<tokens, runs, browserInstance, browsers, launched>>

\* state of the magic-link sign-in
authVars == <<magicLinks, signIns, tokenStore, uuids, signInsStored>>

vars == <<stock, carts, store, paymentMethodVault, now, chatActive,
          charges, inflight, mandates, pmIssued, pending, browserVars, authVars>>

\* null for string-valued fields; None / Some(v) for every other optional value
Null == "null"
None == <<>>
Some(v) == <<v>>
Val(o) == o[1]

(***************************************************************************)
(* Bounds of the model                                                     *)
(***************************************************************************)
MaxLineQty == 16
MaxTime == 62
MaxInflight == 2
MaxPm == 2
MaxMandates == 1

QtyInputs == {8}
\* steps that bring a credential to 54, 55 and 56 minutes of age
ExpirySteps == {54, 55, 56}
\* 56 minutes pass the credential window and the completed TTL, 61 minutes
\* pass the abandoned TTL as well
TickSteps == {56, 61}

\* cart ids (checkout ids) the merchant hands out, in order of creation
CartIdInputs == {1}
\* amounts, in cents, a caller may name where a tool takes an amount
PriceInputs == {1, 71992}

Sessions == {"s1"}
UserOf(sid) == "u1"

(***************************************************************************)
(* Catalog (product-repo.ts)                                               *)
(***************************************************************************)
Products == {"prod_001", "prod_002"}

Price == [p \in Products |-> IF p = "prod_001" THEN 89990 ELSE 129990]
InitialStock == [p \in Products |-> IF p = "prod_001" THEN 15 ELSE 8]

getById(id) == IF id \in Products THEN id ELSE Null

\* productRepo.updateStock: the stock after the call and whether it succeeded
updateStock(st, id, quantitySold) ==
  IF getById(id) = Null THEN [stock |-> st, ok |-> FALSE]
  ELSE IF st[id] < quantitySold THEN [stock |-> st, ok |-> FALSE]
  ELSE [stock |-> [st EXCEPT ![id] = @ - quantitySold], ok |-> TRUE]

(***************************************************************************)
(* Arithmetic helpers                                                      *)
(***************************************************************************)
\* Math.round(dollars * 100) on an amount held in mills: cents, half up
MathRoundCents(mills) == (mills + 5) \div 10

\* index of the first line for productId, 0 when absent (find / findIndex)
findIndex(items, productId) ==
  IF \E i \in 1..Len(items) : items[i].productId = productId
  THEN CHOOSE i \in 1..Len(items) :
         /\ items[i].productId = productId
         /\ \A j \in 1..(i - 1) : items[j].productId # productId
  ELSE 0

\* Array.prototype.splice(idx, 1)
splice(items, idx) ==
  [i \in 1..(Len(items) - 1) |-> IF i < idx THEN items[i] ELSE items[i + 1]]

(***************************************************************************)
(* Cart repository (cart-repo.ts)                                          *)
(***************************************************************************)
RECURSIVE recalcTotal(_)
recalcTotal(items) ==
  IF items = <<>> THEN 0
  ELSE Head(items).unitPrice * Head(items).quantity + recalcTotal(Tail(items))

\* the price-integrity loop of createMandate and of settlement:
\* serverTotal += product.price * item.quantity
RECURSIVE serverTotalLoop(_)
serverTotalLoop(items) ==
  IF items = <<>> THEN 0
  ELSE Price[Head(items).productId] * Head(items).quantity
         + serverTotalLoop(Tail(items))
AllProductsExist(items) ==
  \A i \in 1..Len(items) : getById(items[i].productId) # Null

CartExists(cs, id) == id \in 1..Len(cs)

cartCreate(cs, userId) ==
  Append(cs, [userId |-> userId, items |-> <<>>, status |-> "active", total |-> 0])

addItem(cs, st, cartId, productId, quantity) ==
  IF ~CartExists(cs, cartId) THEN [carts |-> cs, error |-> "Cart not found"]
  ELSE IF cs[cartId].status # "active" THEN [carts |-> cs, error |-> "Cart is not active"]
  ELSE IF getById(productId) = Null THEN [carts |-> cs, error |-> "Product not found"]
  ELSE IF st[productId] < quantity THEN [carts |-> cs, error |-> "Insufficient stock"]
  ELSE
    LET items == cs[cartId].items
        idx == findIndex(items, productId)
        newItems ==
          IF idx # 0
          THEN [items EXCEPT ![idx].quantity = @ + quantity]
          ELSE Append(items, [productId |-> productId, quantity |-> quantity,
                              unitPrice |-> Price[productId]])
    IN [carts |-> [cs EXCEPT ![cartId].items = newItems,
                             ![cartId].total = recalcTotal(newItems)],
        error |-> Null]

removeItem(cs, cartId, productId) ==
  IF ~CartExists(cs, cartId) THEN [carts |-> cs, error |-> "Cart not found"]
  ELSE IF cs[cartId].status # "active" THEN [carts |-> cs, error |-> "Cart is not active"]
  ELSE
    LET items == cs[cartId].items
        idx == findIndex(items, productId)
    IN IF idx = 0 THEN [carts |-> cs, error |-> "Product not in cart"]
       ELSE LET newItems == splice(items, idx)
            IN [carts |-> [cs EXCEPT ![cartId].items = newItems,
                                     ![cartId].total = recalcTotal(newItems)],
                error |-> Null]

reduceItem(cs, cartId, productId, amount) ==
  IF ~CartExists(cs, cartId) THEN [carts |-> cs, error |-> "Cart not found"]
  ELSE IF cs[cartId].status # "active" THEN [carts |-> cs, error |-> "Cart is not active"]
  ELSE
    LET items == cs[cartId].items
        idx == findIndex(items, productId)
    IN IF idx = 0 THEN [carts |-> cs, error |-> "Product not in cart"]
       ELSE LET reduced == [items EXCEPT ![idx].quantity = @ - amount]
                newItems == IF reduced[idx].quantity <= 0
                            THEN splice(reduced, idx) ELSE reduced
            IN [carts |-> [cs EXCEPT ![cartId].items = newItems,
                                     ![cartId].total = recalcTotal(newItems)],
                error |-> Null]

clear(cs, cartId) ==
  IF ~CartExists(cs, cartId) THEN [carts |-> cs, error |-> "Cart not found"]
  ELSE IF cs[cartId].status # "active" THEN [carts |-> cs, error |-> "Cart is not active"]
  ELSE [carts |-> [cs EXCEPT ![cartId].items = <<>>, ![cartId].total = 0],
        error |-> Null]

\* the refresh loop of checkout: rewrites unit prices line by line and stops
\* at the first line whose product is gone (lines before it stay rewritten)
RECURSIVE checkoutLoop(_, _, _)
\* (checkoutLoopPerLine: the loop with a running total that adds each line's
\* price once, whatever its quantity)
checkoutLoopPerLine(items, i, total) ==
  IF i > Len(items) THEN [items |-> items, total |-> total, ok |-> TRUE]
  ELSE IF getById(items[i].productId) = Null
       THEN [items |-> items, total |-> total, ok |-> FALSE]
       ELSE checkoutLoop([items EXCEPT ![i].unitPrice = Price[items[i].productId]],
                         i + 1,
                         total + Price[items[i].productId])
checkoutLoop(items, i, total) ==
  IF i > Len(items) THEN [items |-> items, total |-> total, ok |-> TRUE]
  ELSE IF getById(items[i].productId) = Null
       THEN [items |-> items, total |-> total, ok |-> FALSE]
       ELSE checkoutLoop([items EXCEPT ![i].unitPrice = Price[items[i].productId]],
                         i + 1,
                         total + Price[items[i].productId] * items[i].quantity)

\* (checkoutAgain: checkout that turns away paid carts only)
checkoutAgain(cs, cartId) ==
  IF ~CartExists(cs, cartId) THEN [carts |-> cs, error |-> "Cart not found"]
  ELSE IF cs[cartId].status = "paid"
       THEN [carts |-> cs, error |-> "Cart is already checked out or paid"]
  ELSE IF Len(cs[cartId].items) = 0 THEN [carts |-> cs, error |-> "Cart is empty"]
  ELSE
    LET r == checkoutLoop(cs[cartId].items, 1, 0)
    IN IF ~r.ok
       THEN [carts |-> [cs EXCEPT ![cartId].items = r.items],
             error |-> "Product no longer exists"]
       ELSE [carts |-> [cs EXCEPT ![cartId].items = r.items,
                                  ![cartId].total = r.total,
                                  ![cartId].status = "checked_out"],
             error |-> Null]
\* (checkoutFreezeFirst: checkout that freezes the cart before it looks at
\* the items)
checkoutFreezeFirst(cs, cartId) ==
  IF ~CartExists(cs, cartId) THEN [carts |-> cs, error |-> "Cart not found"]
  ELSE IF cs[cartId].status # "active"
       THEN [carts |-> cs, error |-> "Cart is already checked out or paid"]
  ELSE IF Len(cs[cartId].items) = 0
       THEN [carts |-> [cs EXCEPT ![cartId].status = "checked_out"],
             error |-> "Cart is empty"]
  ELSE
    LET r == checkoutLoop(cs[cartId].items, 1, 0)
    IN IF ~r.ok
       THEN [carts |-> [cs EXCEPT ![cartId].items = r.items],
             error |-> "Product no longer exists"]
       ELSE [carts |-> [cs EXCEPT ![cartId].items = r.items,
                                  ![cartId].total = r.total,
                                  ![cartId].status = "checked_out"],
             error |-> Null]

checkout(cs, cartId) ==
  IF ~CartExists(cs, cartId) THEN [carts |-> cs, error |-> "Cart not found"]
  ELSE IF cs[cartId].status # "active"
       THEN [carts |-> cs, error |-> "Cart is already checked out or paid"]
  ELSE IF Len(cs[cartId].items) = 0 THEN [carts |-> cs, error |-> "Cart is empty"]
  ELSE
    LET r == checkoutLoop(cs[cartId].items, 1, 0)
    IN IF ~r.ok
       THEN [carts |-> [cs EXCEPT ![cartId].items = r.items],
             error |-> "Product no longer exists"]
       ELSE [carts |-> [cs EXCEPT ![cartId].items = r.items,
                                  ![cartId].total = r.total,
                                  ![cartId].status = "checked_out"],
             error |-> Null]

\* the decrement loop of markPaid: stops at the first line that cannot be
\* decremented; the decrements already made are kept
RECURSIVE markPaidLoop(_, _, _)
markPaidLoop(st, items, i) ==
  IF i > Len(items) THEN [stock |-> st, ok |-> TRUE]
  ELSE LET u == updateStock(st, items[i].productId, items[i].quantity)
       IN IF ~u.ok THEN [stock |-> u.stock, ok |-> FALSE]
          ELSE markPaidLoop(u.stock, items, i + 1)

markPaid(cs, st, cartId) ==
  IF ~CartExists(cs, cartId) THEN [carts |-> cs, stock |-> st, error |-> "Cart not found"]
  ELSE IF cs[cartId].status # "checked_out"
       THEN [carts |-> cs, stock |-> st, error |-> "Cart must be checked_out first"]
  ELSE
    LET r == markPaidLoop(st, cs[cartId].items, 1)
    IN IF ~r.ok
       THEN [carts |-> cs, stock |-> r.stock, error |-> "Failed to decrement stock"]
       ELSE [carts |-> [cs EXCEPT ![cartId].status = "paid"],
             stock |-> r.stock, error |-> Null]

(***************************************************************************)
(* Session store and payment-method vault (session-store.ts)               *)
(***************************************************************************)
COMPLETED_TTL_MS == 30
ABANDONED_TTL_MS == 60

TERMINAL_PAYMENT_STATUSES == {"succeeded", "failed"}

createSessionState(sessionId, userId) ==
  [sessionId |-> sessionId, userId |-> userId,
   cartId |-> None, cartStatus |-> Null, cartTotal |-> None,
   checkoutId |-> None, mandateId |-> None, mandateStatus |-> Null,
   revealTokenObtained |-> FALSE, credentialsRevealed |-> FALSE,
   credentialsRevealedAt |-> None, orderId |-> None,
   stripePaymentIntentId |-> None, paymentStatus |-> Null, error |-> Null]

\* The store and the vault travel together as one record W = [store, vault]:
\* every store operation below maps W to the W it leaves behind.
shouldEvict(entry, t) ==
  IF entry.completedAt # None
  THEN t - Val(entry.completedAt) > COMPLETED_TTL_MS
  ELSE t - entry.createdAt > ABANDONED_TTL_MS

evictExpired(W, t) ==
  LET gone == {s \in Sessions :
                 W.store[s] # None /\ shouldEvict(Val(W.store[s]), t)}
  IN [store |-> [s \in Sessions |-> IF s \in gone THEN None ELSE W.store[s]],
      vault |-> [s \in Sessions |-> IF s \in gone THEN None ELSE W.vault[s]]]

storePaymentMethodId(W, sessionId, paymentMethodId) ==
  [W EXCEPT !.vault[sessionId] = Some(paymentMethodId)]

getPaymentMethodId(W, sessionId) == W.vault[sessionId]

\* (clearPaymentMethodIdKeep: a clear that deletes nothing)
clearPaymentMethodIdKeep(W, sessionId) == W
clearPaymentMethodId(W, sessionId) == [W EXCEPT !.vault[sessionId] = None]

\* getSession: the W left by its eviction pass, and the state it returns
\* (None, or Some(state))
getSessionW(W, t) == evictExpired(W, t)
getSession(W, t, sessionId) ==
  LET E == evictExpired(W, t)
  IN IF E.store[sessionId] = None THEN None
     ELSE Some(Val(E.store[sessionId]).state)

deleteSession(W, sessionId) ==
  [store |-> [W.store EXCEPT ![sessionId] = None],
   vault |-> [W.vault EXCEPT ![sessionId] = None]]

\* (getOrCreateSessionResume: getOrCreateSession that hands back whatever
\* record it finds)
getOrCreateSessionResume(W, t, sessionId, userId) ==
  LET E == evictExpired(W, t)
      existing == getSession(W, t, sessionId)
      fresh == [state |-> createSessionState(sessionId, userId),
                createdAt |-> t, completedAt |-> None]
  IN IF existing # None
     THEN E
     ELSE [E EXCEPT !.store[sessionId] = Some(fresh)]
getOrCreateSession(W, t, sessionId, userId) ==
  LET E == evictExpired(W, t)
      existing == getSession(W, t, sessionId)
      fresh == [state |-> createSessionState(sessionId, userId),
                createdAt |-> t, completedAt |-> None]
  IN IF existing # None /\ Val(existing).paymentStatus \notin TERMINAL_PAYMENT_STATUSES
     THEN E
     ELSE LET D == IF existing # None THEN deleteSession(E, sessionId) ELSE E
          IN [D EXCEPT !.store[sessionId] = Some(fresh)]

\* Object.assign(entry.state, updates): updates is a record of the fields set
Merge(state, updates) ==
  [f \in DOMAIN state \cup DOMAIN updates |->
     IF f \in DOMAIN updates THEN updates[f] ELSE state[f]]

\* (updateSessionRestart: an update that stamps completedAt on every update
\* of a record whose payment status is terminal)
updateSessionRestart(W, t, sessionId, updates) ==
  LET E == evictExpired(W, t)
  IN IF E.store[sessionId] = None THEN E
     ELSE LET entry == Val(E.store[sessionId])
              merged == Merge(entry.state, updates)
              completedAt ==
                IF merged.paymentStatus \in TERMINAL_PAYMENT_STATUSES
                THEN Some(t) ELSE entry.completedAt
          IN [E EXCEPT !.store[sessionId] =
                Some([state |-> merged, createdAt |-> entry.createdAt,
                      completedAt |-> completedAt])]
updateSession(W, t, sessionId, updates) ==
  LET E == evictExpired(W, t)
  IN IF E.store[sessionId] = None THEN E
     ELSE LET entry == Val(E.store[sessionId])
              merged == Merge(entry.state, updates)
              completedAt ==
                IF /\ merged.paymentStatus \in TERMINAL_PAYMENT_STATUSES
                   /\ entry.completedAt = None
                THEN Some(t) ELSE entry.completedAt
          IN [E EXCEPT !.store[sessionId] =
                Some([state |-> merged, createdAt |-> entry.createdAt,
                      completedAt |-> completedAt])]

World == [store |-> store, vault |-> paymentMethodVault]

(***************************************************************************)
(* Error helpers of the agent tools (tools.ts)                             *)
(***************************************************************************)
\* Failures the wallet authority's SDK can throw: class, HTTP status and the
\* part of the message the helpers look at.
CardNotFound ==
  [cls |-> "CardNotFoundError", statusCode |-> 404, message |-> "card not found"]
ConnectionLost ==
  [cls |-> "NekudaConnectionError", statusCode |-> 0, message |-> "ETIMEDOUT"]
RateLimited ==
  [cls |-> "NekudaApiError", statusCode |-> 429, message |-> "too many requests"]
CvvExpired ==
  [cls |-> "NekudaApiError", statusCode |-> 400, message |-> "cvv expired"]
MandateNotFound ==
  [cls |-> "NekudaApiError", statusCode |-> 404, message |-> "mandate not found"]

NekudaErrors == {CardNotFound, ConnectionLost, RateLimited, CvvExpired, MandateNotFound}

AuthFailed ==
  [cls |-> "AuthenticationError", statusCode |-> 401, message |-> "invalid api key"]
ValidationFailed ==
  [cls |-> "NekudaValidationError", statusCode |-> 0,
   message |-> "price must be positive"]
Unavailable ==
  [cls |-> "NekudaApiError", statusCode |-> 503, message |-> "service unavailable"]
\* an exception that is none of the SDK's
Unexpected == [cls |-> "Error", statusCode |-> 0, message |-> "socket hang up"]

\* everything a call of the wallet authority can throw
UpstreamErrors ==
  NekudaErrors \cup {AuthFailed, ValidationFailed, Unavailable, Unexpected}

\* placeholder carried by outcomes in which nothing was thrown
NoError == [cls |-> "none", statusCode |-> 0, message |-> ""]

\* instanceof NekudaApiError (CardNotFoundError and AuthenticationError are
\* API errors that carry a status code)
IsNekudaApiError(err) ==
  err.cls \in {"NekudaApiError", "CardNotFoundError", "AuthenticationError"}

isNoPaymentMethodError(err) ==
  IF err.cls = "CardNotFoundError" THEN TRUE
  ELSE IF ~IsNekudaApiError(err) THEN FALSE
  ELSE IF err.statusCode # 400 THEN FALSE
  ELSE err.message \in {"no payment method", "no card", "unknown error"}

isCvvExpiredError(err) == err.message \in {"cvv expired", "cvv invalid"}

\* handleNekudaError: what it returns, and the error it writes into the
\* session (sessionError = Null: the session is not touched)
\* (handleNekudaErrorOnly429: the classifier with 429 as the one retryable
\* status)
handleNekudaErrorOnly429(err) ==
  IF err.cls = "CardNotFoundError"
  THEN [error |-> "Card not found. Please add a payment method on the Wallet page.",
        retryable |-> FALSE, sessionError |-> "Card not found"]
  ELSE IF err.cls = "AuthenticationError"
  THEN [error |-> "Payment service configuration error. Please contact support.",
        retryable |-> FALSE, sessionError |-> "Payment service authentication failed"]
  ELSE IF err.cls = "NekudaConnectionError"
  THEN [error |-> "Could not reach the payment service. Please try again in a moment.",
        retryable |-> TRUE, sessionError |-> Null]
  ELSE IF err.cls = "NekudaValidationError"
  THEN [error |-> err.message, retryable |-> FALSE, sessionError |-> err.message]
  ELSE IF IsNekudaApiError(err)
  THEN LET retryable == err.statusCode \in {429}
       IN [error |-> err.message, retryable |-> retryable,
           sessionError |-> IF retryable THEN Null ELSE err.message]
  ELSE [error |-> err.message, retryable |-> FALSE, sessionError |-> err.message]
handleNekudaError(err) ==
  IF err.cls = "CardNotFoundError"
  THEN [error |-> "Card not found. Please add a payment method on the Wallet page.",
        retryable |-> FALSE, sessionError |-> "Card not found"]
  ELSE IF err.cls = "AuthenticationError"
  THEN [error |-> "Payment service configuration error. Please contact support.",
        retryable |-> FALSE, sessionError |-> "Payment service authentication failed"]
  ELSE IF err.cls = "NekudaConnectionError"
  THEN [error |-> "Could not reach the payment service. Please try again in a moment.",
        retryable |-> TRUE, sessionError |-> Null]
  ELSE IF err.cls = "NekudaValidationError"
  THEN [error |-> err.message, retryable |-> FALSE, sessionError |-> err.message]
  ELSE IF IsNekudaApiError(err)
  THEN LET retryable == err.statusCode \in {429, 503}
       IN [error |-> err.message, retryable |-> retryable,
           sessionError |-> IF retryable THEN Null ELSE err.message]
  ELSE [error |-> err.message, retryable |-> FALSE, sessionError |-> err.message]

\* the updateSession call made on the way out of handleNekudaError
applyNekudaError(W, t, sessionId, err) ==
  LET h == handleNekudaError(err)
  IN IF h.sessionError = Null THEN W
     ELSE updateSession(W, t, sessionId, [error |-> h.sessionError])

(***************************************************************************)
(* Initial state: module load                                              *)
(***************************************************************************)
\* completeCheckout calls that can be in progress at once
Runs == {1, 2}
\* a call that is not running; browser is the call's local `browser`
\* and card its local `cardCredentials`
IdleRun == [pc |-> "idle", sid |-> Null, checkoutId |-> 0, token |-> <<>>,
            browser |-> 0, card |-> None]

Init ==
  /\ stock = InitialStock
  /\ carts = <<>>
  /\ store = [s \in Sessions |-> None]
  /\ paymentMethodVault = [s \in Sessions |-> None]
  /\ now = 1
  /\ chatActive = [s \in Sessions |-> FALSE]
  /\ charges = {}
  /\ inflight = <<>>
  /\ mandates = <<>>
  /\ pmIssued = <<>>
  /\ pending = <<>>
  /\ tokens = {}
  /\ runs = [r \in Runs |-> IdleRun]
  /\ browserInstance = None
  /\ browsers = {}
  /\ launched = 0
  /\ magicLinks = {}
  /\ signIns = <<>>
  /\ tokenStore = {}
  /\ uuids = 0
  /\ signInsStored = <<>>

SetWorld(W) ==
  /\ store' = W.store
  /\ paymentMethodVault' = W.vault

(***************************************************************************)
(* Environment: the clock, and chat requests (api/agent/chat/route.ts)     *)
(***************************************************************************)
Tick(d) ==
  /\ now + d <= MaxTime
  /\ now' = now + d
  /\ UNCHANGED <<stock, carts, store, paymentMethodVault, chatActive,
                 charges, inflight, mandates, pmIssued, pending, browserVars, authVars>>

\* POST /api/agent/chat: ensure the session exists, then hand the tools to
\* the agent loop
chatPOST(sid) ==
  /\ SetWorld(getOrCreateSession(World, now, sid, UserOf(sid)))
  /\ chatActive' = [chatActive EXCEPT ![sid] = TRUE]
  /\ UNCHANGED <<stock, carts, now, charges, inflight, mandates, pmIssued, pending, browserVars, authVars>>

(***************************************************************************)
(* Merchant tools (tools.ts, createToolSet)                                *)
(***************************************************************************)
\* ids: the cart ids the repository can still hand out
createCartIn(sid, ids) ==
  /\ chatActive[sid]
  /\ Len(carts) + 1 \in ids
  /\ carts' = cartCreate(carts, UserOf(sid))
  /\ SetWorld(updateSession(World, now, sid,
                [cartId |-> Some(Len(carts) + 1), cartStatus |-> "active",
                 cartTotal |-> Some(0)]))
  /\ UNCHANGED <<stock, now, chatActive, charges, inflight, mandates, pmIssued, pending, browserVars, authVars>>

createCart(sid) == createCartIn(sid, CartIdInputs)

addToCart(sid, cartId, productId, quantity) ==
  /\ chatActive[sid]
  /\ LET result == addItem(carts, stock, cartId, productId, quantity)
     IN IF result.error # Null
        THEN /\ UNCHANGED <<carts, store, paymentMethodVault>>
        ELSE /\ \A i \in 1..Len(result.carts[cartId].items) :
                  result.carts[cartId].items[i].quantity <= MaxLineQty
             /\ carts' = result.carts
             /\ SetWorld(updateSession(World, now, sid,
                           [cartStatus |-> "active",
                            cartTotal |-> Some(result.carts[cartId].total)]))
  /\ UNCHANGED <<stock, now, chatActive, charges, inflight, mandates, pmIssued, pending, browserVars, authVars>>

removeFromCart(sid, cartId, productId) ==
  /\ chatActive[sid]
  /\ LET result == removeItem(carts, cartId, productId)
     IN IF result.error # Null
        THEN /\ UNCHANGED <<carts, store, paymentMethodVault>>
        ELSE /\ carts' = result.carts
             /\ SetWorld(updateSession(World, now, sid,
                           [cartTotal |-> Some(result.carts[cartId].total)]))
  /\ UNCHANGED <<stock, now, chatActive, charges, inflight, mandates, pmIssued, pending, browserVars, authVars>>

checkoutCart(sid, cartId) ==
  /\ chatActive[sid]
  /\ LET result == checkout(carts, cartId)
     IN IF result.error # Null
        THEN /\ carts' = result.carts
             /\ UNCHANGED <<store, paymentMethodVault>>
        ELSE /\ carts' = result.carts
             /\ SetWorld(updateSession(World, now, sid,
                           [checkoutId |-> Some(cartId), cartStatus |-> "checked_out",
                            cartTotal |-> Some(result.carts[cartId].total)]))
  /\ UNCHANGED <<stock, now, chatActive, charges, inflight, mandates, pmIssued, pending, browserVars, authVars>>

(***************************************************************************)
(* Authorization stage: createMandate (tools.ts)                           *)
(***************************************************************************)
\* the amount createMandate asks the wallet authority to approve, in cents
mandatePrice(items) == MathRoundCents(serverTotalLoop(items))

\* what nekuda.user(userId).createMandate does: resolve, or throw err
MandateOutcomes ==
  {[stage |-> "ok", err |-> NoError]}
    \cup {[stage |-> "throw", err |-> e] : e \in NekudaErrors}

createMandate(sid, checkoutId, o) ==
  /\ chatActive[sid]
  /\ IF ~CartExists(carts, checkoutId)
     THEN /\ UNCHANGED <<store, paymentMethodVault, mandates>>
     ELSE IF carts[checkoutId].status # "checked_out"
     THEN /\ UNCHANGED <<store, paymentMethodVault, mandates>>
     ELSE IF ~AllProductsExist(carts[checkoutId].items)
     THEN /\ UNCHANGED <<store, paymentMethodVault, mandates>>
     ELSE IF o.stage = "ok"
     THEN /\ Len(mandates) < MaxMandates
          /\ mandates' = Append(mandates,
                 [checkoutId |-> Some(checkoutId),
                  price |-> mandatePrice(carts[checkoutId].items)])
          /\ SetWorld(updateSession(World, now, sid,
                 [mandateId |-> Some(Len(mandates) + 1), mandateStatus |-> "approved"]))
     ELSE IF isNoPaymentMethodError(o.err)
     THEN /\ SetWorld(updateSession(World, now, sid,
                 [mandateStatus |-> "failed", error |-> "No payment method configured"]))
          /\ UNCHANGED mandates
     ELSE /\ SetWorld(applyNekudaError(World, now, sid, o.err))
          /\ UNCHANGED mandates
  /\ UNCHANGED <<stock, carts, now, chatActive, charges, inflight, pmIssued, pending, browserVars, authVars>>

\* handleNekudaError of the caller-priced tool set
handleNekudaErrorLegacy(err) ==
  IF err.cls = "NekudaApiError"
  THEN LET retryable == err.statusCode \in {429, 503}
       IN [error |-> err.message, retryable |-> retryable,
           sessionError |-> IF retryable THEN Null ELSE err.message]
  ELSE [error |-> err.message, retryable |-> FALSE, sessionError |-> err.message]

\* createMandate of the caller-priced tool set: { product, price, merchant }
\* come from the caller and go to the wallet authority as they are
createMandateLegacy(sid, price, o) ==
  /\ chatActive[sid]
  /\ IF o.stage = "ok"
     THEN /\ Len(mandates) < MaxMandates
          /\ mandates' = Append(mandates, [checkoutId |-> None, price |-> price])
          /\ SetWorld(updateSession(World, now, sid,
                 [mandateId |-> Some(Len(mandates) + 1), mandateStatus |-> "approved"]))
     ELSE LET h == handleNekudaErrorLegacy(o.err)
          IN /\ SetWorld(IF h.sessionError = Null THEN World
                         ELSE updateSession(World, now, sid, [error |-> h.sessionError]))
             /\ UNCHANGED mandates
  /\ UNCHANGED <<stock, carts, now, chatActive, charges, inflight, pmIssued, pending, browserVars, authVars>>

(***************************************************************************)
(* Credential realization, server-tokenize variant:                        *)
(* requestCardRevealToken (tools.ts)                                       *)
(***************************************************************************)
\* What the three upstream calls of one realization do: the reveal-token
\* request, the reveal itself, and the tokenization.
RevealOutcomes ==
  {[stage |-> "reveal", err |-> CvvExpired],
   [stage |-> "ok", err |-> NoError]}

requestCardRevealToken(sid, o) ==
  /\ chatActive[sid]
  /\ IF o.stage = "token"
     THEN /\ SetWorld(applyNekudaError(World, now, sid, o.err))
          /\ UNCHANGED pmIssued
     ELSE
       LET W1 == updateSession(World, now, sid, [revealTokenObtained |-> TRUE])
       IN IF o.stage = "reveal"
          THEN IF IsNekudaApiError(o.err) /\ isCvvExpiredError(o.err)
               THEN /\ SetWorld(updateSession(W1, now, sid,
                           [credentialsRevealed |-> FALSE,
                            credentialsRevealedAt |-> None]))
                    /\ UNCHANGED pmIssued
               ELSE /\ SetWorld(applyNekudaError(W1, now, sid, o.err))
                    /\ UNCHANGED pmIssued
          ELSE IF o.stage = "incomplete"
          THEN /\ SetWorld(updateSession(W1, now, sid,
                      [error |-> "Incomplete card data received"]))
               /\ UNCHANGED pmIssued
          ELSE IF o.stage = "invalid_expiry"
          THEN /\ SetWorld(updateSession(W1, now, sid,
                      [error |-> "Invalid card expiry format"]))
               /\ UNCHANGED pmIssued
          ELSE IF o.stage = "tokenize_failed"
          THEN /\ SetWorld(updateSession(W1, now, sid,
                      [error |-> "Card tokenization failed"]))
               /\ UNCHANGED pmIssued
          ELSE /\ Len(pmIssued) < MaxPm
               /\ pmIssued' = Append(pmIssued, now)
               /\ SetWorld(updateSession(
                      storePaymentMethodId(W1, sid, Len(pmIssued) + 1), now, sid,
                      [credentialsRevealed |-> TRUE,
                       credentialsRevealedAt |-> Some(now)]))
  /\ UNCHANGED <<stock, carts, now, chatActive, charges, inflight, mandates, pending, browserVars, authVars>>

\* every way the three upstream calls of one realization can go
RevealOutcomesAll ==
  {[stage |-> st, err |-> e] : st \in {"token", "reveal"}, e \in UpstreamErrors}
  \cup {[stage |-> st, err |-> NoError] :
          st \in {"incomplete", "invalid_expiry", "tokenize_failed", "ok"}}

\* the object requestCardRevealToken returns (fields: the keys it carries)
requestCardRevealTokenResult(o) ==
  IF o.stage = "token" THEN
    [fields |-> {"error", "retryable"}, error |-> handleNekudaError(o.err).error,
     retryable |-> handleNekudaError(o.err).retryable]
  ELSE IF o.stage = "reveal" THEN
    IF IsNekudaApiError(o.err) /\ isCvvExpiredError(o.err)
    THEN [fields |-> {"error", "action", "message"}, error |-> "CVV_EXPIRED",
          retryable |-> FALSE]
    ELSE [fields |-> {"error", "retryable"},
          error |-> handleNekudaError(o.err).error,
          retryable |-> handleNekudaError(o.err).retryable]
  ELSE IF o.stage = "incomplete" THEN
    [fields |-> {"error", "message", "retryable"},
     error |-> "INCOMPLETE_CARD_DATA", retryable |-> TRUE]
  ELSE IF o.stage = "invalid_expiry" THEN
    [fields |-> {"error", "message", "retryable"},
     error |-> "INVALID_EXPIRY", retryable |-> TRUE]
  ELSE IF o.stage = "tokenize_failed" THEN
    [fields |-> {"error", "message", "retryable"},
     error |-> "TOKENIZATION_FAILED", retryable |-> TRUE]
  ELSE [fields |-> {"success", "last4", "message"}, error |-> Null,
        retryable |-> FALSE]

(***************************************************************************)
(* Settlement stage: executePayment (tools.ts) and the payment processor   *)
(***************************************************************************)
CREDENTIAL_TTL_MS == 55

\* idempotencyKey: `pay_${checkoutId}`
\* (idempotencyKeyPerAttempt: a key that also changes with every intent the
\* processor has created)
idempotencyKeyPerAttempt(checkoutId) == <<"pay_", checkoutId + Cardinality(charges)>>
idempotencyKey(checkoutId) == <<"pay_", checkoutId>>

\* amount: Math.round(serverTotal * 100), serverTotal being the catalog total
\* rounded to cents
\* (chargeAmountPerLine: the amount with every line counted once)
chargeAmountPerLine(items) ==
  MathRoundCents(serverTotalLoop([k \in 1..Len(items) |->
                                   [items[k] EXCEPT !.quantity = 1]]))
chargeAmount(items) == MathRoundCents(serverTotalLoop(items))

\* The precondition checks of executePayment, in the order of the code: the
\* error it returns, Null when the charge request is submitted.
\* (executePaymentErrorVaultFirst: the checks with the vault looked up before
\* the credential window)
executePaymentErrorVaultFirst(W, cs, t, sid, checkoutId) ==
  LET E == getSessionW(W, t)
      session == getSession(W, t, sid)
  IN IF getPaymentMethodId(E, sid) = None
     THEN "No payment method found. Call requestCardRevealToken first."
     ELSE IF /\ session # None
             /\ Val(session).credentialsRevealedAt # None
             /\ t - Val(Val(session).credentialsRevealedAt) > CREDENTIAL_TTL_MS
     THEN "CREDENTIALS_EXPIRED"
     ELSE IF ~CartExists(cs, checkoutId)
     THEN "Checkout not found"
     ELSE IF cs[checkoutId].status = "active"
     THEN "Cart status is 'active', expected 'checked_out'"
     ELSE IF cs[checkoutId].status = "paid"
     THEN "Cart status is 'paid', expected 'checked_out'"
     ELSE IF ~AllProductsExist(cs[checkoutId].items)
     THEN "Product no longer exists"
     ELSE Null
executePaymentError(W, cs, t, sid, checkoutId) ==
  LET E == getSessionW(W, t)
      session == getSession(W, t, sid)
  IN IF /\ session # None
        /\ Val(session).credentialsRevealedAt # None
        /\ t - Val(Val(session).credentialsRevealedAt) > CREDENTIAL_TTL_MS
     THEN "CREDENTIALS_EXPIRED"
     ELSE IF getPaymentMethodId(E, sid) = None
     THEN "No payment method found. Call requestCardRevealToken first."
     ELSE IF ~CartExists(cs, checkoutId)
     THEN "Checkout not found"
     ELSE IF cs[checkoutId].status = "active"
     THEN "Cart status is 'active', expected 'checked_out'"
     ELSE IF cs[checkoutId].status = "paid"
     THEN "Cart status is 'paid', expected 'checked_out'"
     ELSE IF ~AllProductsExist(cs[checkoutId].items)
     THEN "Product no longer exists"
     ELSE Null

\* First half of executePayment: the precondition checks and the price
\* recomputation, up to the call of stripe.paymentIntents.create.
executePayment(sid, checkoutId) ==
  /\ chatActive[sid]
  /\ LET E == getSessionW(World, now)
         error == executePaymentError(World, carts, now, sid, checkoutId)
     IN
       IF error = "CREDENTIALS_EXPIRED"
       THEN /\ SetWorld(clearPaymentMethodId(E, sid))
            /\ UNCHANGED inflight
       ELSE IF error # Null
       THEN /\ SetWorld(E)
            /\ UNCHANGED inflight
       ELSE /\ Len(inflight) < MaxInflight
            /\ SetWorld(E)
            /\ inflight' = Append(inflight,
                  [sid |-> sid, checkoutId |-> checkoutId,
                   payment_method |-> Val(getPaymentMethodId(E, sid)),
                   amount |-> chargeAmount(carts[checkoutId].items),
                   key |-> idempotencyKey(checkoutId),
                   submittedAt |-> now])
  /\ UNCHANGED <<stock, carts, now, chatActive, charges, mandates, pmIssued, pending, browserVars, authVars>>

\* The processor's handling of one create-and-confirm request.  A request
\* whose idempotency key already has a PaymentIntent gets that intent back
\* and creates nothing.  Otherwise the processor either creates the intent
\* or declines.  The caller sees the intent ("succeeded"), the decline
\* ("declined"), or an error although the intent exists ("lost_response").
\* A decline leaves no intent behind: a later request under the same key is
\* handled as a new one.
ProcessorOutcomes == {"succeeded", "declined", "lost_response"}

HasIntent(key) == \E ch \in charges : ch.key = key
IntentOf(key) == CHOOSE ch \in charges : ch.key = key

\* id of the PaymentIntent a non-declined request ends up with
intentId(r) ==
  IF HasIntent(r.key) THEN IntentOf(r.key).id ELSE Cardinality(charges) + 1

processorCreate(r, outcome) ==
  IF outcome = "declined" \/ HasIntent(r.key) THEN charges
  ELSE charges \cup {[id |-> intentId(r), key |-> r.key,
                       checkoutId |-> r.checkoutId, amount |-> r.amount,
                       payment_method |-> r.payment_method]}

RemoveAt(seq, i) == [j \in 1..(Len(seq) - 1) |-> IF j < i THEN seq[j] ELSE seq[j + 1]]

\* Second half of executePayment: the response of paymentIntents.create
\* arrives and the handler runs to its return.
\* (executePaymentSettleEager: the handler with markPaid run on every
\* response, failures included)
executePaymentSettleEager(i, outcome) ==
  /\ i \in 1..Len(inflight)
  /\ LET r == inflight[i]
         paid == markPaid(carts, stock, r.checkoutId)
     IN /\ outcome = "declined" => ~HasIntent(r.key)
        /\ charges' = processorCreate(r, outcome)
        /\ inflight' = RemoveAt(inflight, i)
        /\ carts' = paid.carts
        /\ stock' = paid.stock
        /\ IF outcome = "succeeded"
           THEN SetWorld(updateSession(
                          clearPaymentMethodId(World, r.sid), now, r.sid,
                          [orderId |-> Some(r.checkoutId),
                           stripePaymentIntentId |-> Some(intentId(r)),
                           paymentStatus |-> "succeeded"]))
           ELSE LET message == IF outcome = "declined"
                               THEN "Your card was declined."
                               ELSE "Request timed out"
                IN SetWorld(updateSession(World, now, r.sid,
                          [paymentStatus |-> "failed", error |-> message]))
  /\ UNCHANGED <<now, chatActive, mandates, pmIssued, pending, browserVars, authVars>>
executePaymentSettle(i, outcome) ==
  /\ i \in 1..Len(inflight)
  /\ LET r == inflight[i]
     IN /\ outcome = "declined" => ~HasIntent(r.key)
        /\ charges' = processorCreate(r, outcome)
        /\ inflight' = RemoveAt(inflight, i)
        /\ IF outcome = "succeeded"
           THEN LET paid == markPaid(carts, stock, r.checkoutId)
                    pi == intentId(r)
                IN /\ carts' = paid.carts
                   /\ stock' = paid.stock
                   /\ SetWorld(updateSession(
                          clearPaymentMethodId(World, r.sid), now, r.sid,
                          [orderId |-> Some(r.checkoutId),
                           stripePaymentIntentId |-> Some(pi),
                           paymentStatus |-> "succeeded"]))
           ELSE LET message == IF outcome = "declined"
                               THEN "Your card was declined."
                               ELSE "Request timed out"
                IN /\ SetWorld(updateSession(World, now, r.sid,
                          [paymentStatus |-> "failed", error |-> message]))
                   /\ UNCHANGED <<stock, carts>>
  /\ UNCHANGED <<now, chatActive, mandates, pmIssued, pending, browserVars, authVars>>

(***************************************************************************)
(* Redis-backed cart repository (cart-repo.ts, Upstash variant)            *)
(***************************************************************************)
\* Every method but create reads the cart with `await redis.get`, works on
\* the copy it got, and writes the copy back with `await redis.set`.  A call
\* is split at its first await: cartGet takes the copy, cartSet runs the
\* rest.  The key space `cart:<id>` is the variable carts.
MaxPending == 2

RedisCartOps == {"addItem", "removeItem", "checkout"}

redisCartCreate(userId) ==
  /\ Len(carts) + 1 \in CartIdInputs
  /\ carts' = cartCreate(carts, userId)
  /\ UNCHANGED <<stock, store, paymentMethodVault, now, chatActive, charges,
                 inflight, mandates, pmIssued, pending, browserVars, authVars>>

\* const cart = await redis.get<Cart>(cartKey(cartId))
redisCartGet(op, cartId, productId, quantity) ==
  /\ Len(pending) < MaxPending
  /\ pending' = Append(pending,
        [op |-> op, cartId |-> cartId, productId |-> productId,
         quantity |-> quantity,
         cart |-> IF CartExists(carts, cartId) THEN Some(carts[cartId]) ELSE None])
  /\ UNCHANGED <<stock, carts, store, paymentMethodVault, now, chatActive,
                 charges, inflight, mandates, pmIssued, browserVars, authVars>>

\* the method's checks and changes on its copy, and what it returns
redisCartApply(r) ==
  LET copy == IF r.cart = None THEN <<>> ELSE <<Val(r.cart)>>
  IN IF r.op = "addItem" THEN addItem(copy, stock, 1, r.productId, r.quantity)
     ELSE IF r.op = "removeItem" THEN removeItem(copy, 1, r.productId)
     ELSE checkout(copy, 1)

\* the rest of the method: on success, await redis.set(cartKey(cartId), cart)
redisCartSet(i) ==
  /\ i \in 1..Len(pending)
  /\ LET r == pending[i]
         result == redisCartApply(r)
     IN IF result.error # Null
        THEN UNCHANGED carts
        ELSE /\ \A k \in 1..Len(result.carts[1].items) :
                  result.carts[1].items[k].quantity <= MaxLineQty
             /\ carts' = [carts EXCEPT ![r.cartId] = result.carts[1]]
  /\ pending' = RemoveAt(pending, i)
  /\ UNCHANGED <<stock, store, paymentMethodVault, now, chatActive, charges,
                 inflight, mandates, pmIssued, browserVars, authVars>>

\* markPaid up to its first await: const cart = await redis.get<Cart>(...)
redisMarkPaidGet(cartId) ==
  /\ Len(pending) < MaxPending
  /\ pending' = Append(pending,
        [op |-> "markPaid", cartId |-> cartId,
         cart |-> IF CartExists(carts, cartId) THEN Some(carts[cartId]) ELSE None])
  /\ UNCHANGED <<stock, carts, store, paymentMethodVault, now, chatActive,
                 charges, inflight, mandates, pmIssued, browserVars, authVars>>

\* the rest of markPaid: the status check on the copy, the decrement loop on
\* the catalog, and on success await redis.set(cartKey(cartId), cart)
redisMarkPaidSet(i) ==
  /\ i \in 1..Len(pending)
  /\ pending[i].op = "markPaid"
  /\ LET r == pending[i]
         copy == IF r.cart = None THEN <<>> ELSE <<Val(r.cart)>>
         result == markPaid(copy, stock, 1)
     IN /\ stock' = result.stock
        /\ IF result.error # Null
           THEN UNCHANGED carts
           ELSE carts' = [carts EXCEPT ![r.cartId] = result.carts[1]]
  /\ pending' = RemoveAt(pending, i)
  /\ UNCHANGED <<store, paymentMethodVault, now, chatActive, charges,
                 inflight, mandates, pmIssued, browserVars, authVars>>

(***************************************************************************)
(* Checkout tokens (checkout-token.ts)                                     *)
(* Format: base64url(checkoutId) + "." + expiresAt_hex + "." + hmac_hex.   *)
(* A token is the sequence of its "."-separated segments; a segment is the *)
(* sequence of its characters (base64url characters by their 6-bit value). *)
(***************************************************************************)
CHECKOUT_TOKEN_TTL_MS == 5

MaxTokens == 2
MaxTokenTime == 7
\* 5 minutes is the token's whole life, 6 is one minute past it
TokenSteps == {5, 6}
\* checkout ids a request can name (cart 2 is never created)
CheckoutIdInputs == {1, 2}

\* the id string of cart n ("c1", "c2"), as the bytes Buffer.from gives
BufferFrom(checkoutId) == <<99, 48 + checkoutId>>

RECURSIVE Bits(_, _)
\* the w low bits of n, most significant first
Bits(n, w) == IF w = 0 THEN <<>> ELSE Bits(n \div 2, w - 1) \o <<n % 2>>

RECURSIVE Concat(_)
Concat(seqs) == IF seqs = <<>> THEN <<>> ELSE Head(seqs) \o Concat(Tail(seqs))

RECURSIVE Number(_)
\* the number a sequence of bits spells
Number(bits) ==
  IF bits = <<>> THEN 0
  ELSE 2 * Number(SubSeq(bits, 1, Len(bits) - 1)) + bits[Len(bits)]

\* groups of w bits, from the left; pad says whether a short last group is
\* filled with zero bits (encoding) or dropped (decoding)
Groups(bits, w, pad) ==
  LET n == IF pad THEN (Len(bits) + w - 1) \div w ELSE Len(bits) \div w
      bit(k) == IF k <= Len(bits) THEN bits[k] ELSE 0
  IN [g \in 1..n |-> Number([k \in 1..w |-> bit((g - 1) * w + k)])]

\* Buffer.toString("base64url"): no padding characters
toBase64url(bytes) ==
  Groups(Concat([k \in 1..Len(bytes) |-> Bits(bytes[k], 8)]), 6, TRUE)
\* Buffer.from(s, "base64url")
fromBase64url(chars) ==
  Groups(Concat([k \in 1..Len(chars) |-> Bits(chars[k], 6)]), 8, FALSE)

HexDigits == <<"0", "1", "2", "3", "4", "5", "6", "7",
               "8", "9", "a", "b", "c", "d", "e", "f">>
UpperHexDigits == <<"0", "1", "2", "3", "4", "5", "6", "7",
                    "8", "9", "A", "B", "C", "D", "E", "F">>
\* characters a presented token can carry in its hex segments
HexChars == {HexDigits[k] : k \in 1..16} \cup {UpperHexDigits[k] : k \in 1..16}
              \cup {"g"}

IsHexDigit(ch) == \E k \in 1..16 : ch \in {HexDigits[k], UpperHexDigits[k]}
hexValue(ch) == (CHOOSE k \in 1..16 : ch \in {HexDigits[k], UpperHexDigits[k]}) - 1

RECURSIVE toString16(_)
\* Number.prototype.toString(16), for n >= 0
toString16(n) ==
  IF n < 16 THEN <<HexDigits[n + 1]>>
  ELSE toString16(n \div 16) \o <<HexDigits[(n % 16) + 1]>>

RECURSIVE parseInt16Loop(_, _, _)
parseInt16Loop(chars, k, acc) ==
  IF k > Len(chars) \/ ~IsHexDigit(chars[k]) THEN acc
  ELSE parseInt16Loop(chars, k + 1, 16 * acc + hexValue(chars[k]))
\* parseInt(s, 16): the leading hex digits; None stands for NaN
parseInt16(chars) ==
  IF chars = <<>> \/ ~IsHexDigit(chars[1]) THEN None
  ELSE Some(parseInt16Loop(chars, 1, 0))

RECURSIVE fromHex(_)
\* Buffer.from(s, "hex"): decoding stops at the first pair that is not two
\* hex digits; a trailing single character is dropped
fromHex(chars) ==
  IF Len(chars) < 2 \/ ~IsHexDigit(chars[1]) \/ ~IsHexDigit(chars[2]) THEN <<>>
  ELSE <<16 * hexValue(chars[1]) + hexValue(chars[2])>>
         \o fromHex(SubSeq(chars, 3, Len(chars)))

\* digest("hex"): two lower-case digits per byte
toHex(bytes) ==
  Concat([k \in 1..Len(bytes) |->
            <<HexDigits[(bytes[k] \div 16) + 1], HexDigits[(bytes[k] % 16) + 1]>>])

\* the character codes of the payload `${idB64}.${expHex}`
payloadCodes(idB64, expHex) ==
  idB64 \o <<64>> \o
  [k \in 1..Len(expHex) |->
     IF IsHexDigit(expHex[k]) THEN 65 + hexValue(expHex[k]) ELSE 99]

RECURSIVE hmac(_, _)
\* createHmac("sha256", secret).update(payload).digest(): a keyed digest of
\* two bytes, h the running value (the secret to start with)
hmac(codes, h) ==
  IF codes = <<>> THEN <<h \div 256, h % 256>>
  ELSE hmac(Tail(codes), (h * 131 + Head(codes) + 1) % 65536)

SESSION_SECRET == 44203

sign(idB64, expHex) == toHex(hmac(payloadCodes(idB64, expHex), SESSION_SECRET))

\* (generateCheckoutTokenLate: a token that lives one minute longer)
generateCheckoutTokenLate(checkoutId, t) ==
  LET idB64 == toBase64url(BufferFrom(checkoutId))
      expHex == toString16(t + CHECKOUT_TOKEN_TTL_MS + 1)
  IN <<idB64, expHex, sign(idB64, expHex)>>
generateCheckoutToken(checkoutId, t) ==
  LET idB64 == toBase64url(BufferFrom(checkoutId))
      expiresAt == t + CHECKOUT_TOKEN_TTL_MS
      expHex == toString16(expiresAt)
  IN <<idB64, expHex, sign(idB64, expHex)>>

\* (verifyCheckoutTokenUnbound: verification without the checkout id check)
verifyCheckoutTokenUnbound(token, expectedCheckoutId, t) ==
  IF Len(token) # 3 THEN FALSE
  ELSE LET idB64 == token[1]
           expHex == token[2]
           a == fromHex(token[3])
           b == fromHex(sign(idB64, expHex))
           expiresAt == parseInt16(expHex)
       IN IF Len(a) # Len(b) \/ a # b THEN FALSE
          ELSE IF expiresAt # None /\ t > Val(expiresAt) THEN FALSE
          ELSE TRUE
\* the comparison of the decoded id with expectedCheckoutId is made on the
\* bytes of the two strings
verifyCheckoutToken(token, expectedCheckoutId, t) ==
  IF Len(token) # 3 THEN FALSE
  ELSE LET idB64 == token[1]
           expHex == token[2]
           providedSig == token[3]
           expectedSig == sign(idB64, expHex)
           a == fromHex(providedSig)
           b == fromHex(expectedSig)
           expiresAt == parseInt16(expHex)
       IN IF Len(a) # Len(b) \/ a # b THEN FALSE
          ELSE IF expiresAt # None /\ t > Val(expiresAt) THEN FALSE
          ELSE IF fromBase64url(idB64) # BufferFrom(expectedCheckoutId) THEN FALSE
          ELSE TRUE

(***************************************************************************)
(* The checkout page's pay endpoint:                                       *)
(* POST /api/checkout/[checkoutId]/pay (api/checkout/[checkoutId]/route.ts) *)
(***************************************************************************)
\* payment methods the page's card form can produce
PagePaymentMethods == {9}

\* GET /api/checkout/[checkoutId]: the status of its response
checkoutGET(token, checkoutId) ==
  IF ~verifyCheckoutToken(token, checkoutId, now) THEN 401
  ELSE IF ~CartExists(carts, checkoutId) THEN 404
  ELSE IF carts[checkoutId].status # "checked_out" THEN 400
  ELSE 200

\* POST .../pay up to the call of the processor: the status and error of an
\* early return, status 0 if the handler goes on to the processor
checkoutPayError(token, checkoutId) ==
  IF ~verifyCheckoutToken(token, checkoutId, now)
  THEN [status |-> 401, error |-> "CHECKOUT_SESSION_EXPIRED"]
  ELSE IF ~CartExists(carts, checkoutId)
  THEN [status |-> 404, error |-> "Checkout not found"]
  ELSE IF carts[checkoutId].status # "checked_out"
  THEN [status |-> 400, error |-> "Cart status is not checked_out"]
  ELSE IF ~AllProductsExist(carts[checkoutId].items)
  THEN [status |-> 400, error |-> "Product no longer exists"]
  ELSE [status |-> 0, error |-> Null]

payRequest(checkoutId, paymentMethodId) ==
  [key |-> idempotencyKey(checkoutId), checkoutId |-> checkoutId,
   amount |-> chargeAmount(carts[checkoutId].items),
   payment_method |-> paymentMethodId]

\* the response of POST .../pay, given what the processor does with the
\* request
checkoutPayResponse(token, checkoutId, paymentMethodId, outcome) ==
  LET early == checkoutPayError(token, checkoutId)
  IN IF early.status # 0 THEN early
     ELSE IF outcome = "succeeded" THEN [status |-> 200, error |-> Null]
     ELSE IF outcome = "declined"
     THEN [status |-> 500, error |-> "Your card was declined."]
     ELSE [status |-> 500, error |-> "Request timed out"]

\* what POST .../pay changes: nothing on an early return; otherwise the
\* processor handles the request, and on its success the cart is marked paid
checkoutPayEffect(token, checkoutId, paymentMethodId, outcome) ==
  IF checkoutPayError(token, checkoutId).status # 0
  THEN UNCHANGED <<charges, carts, stock>>
  ELSE LET r == payRequest(checkoutId, paymentMethodId)
       IN /\ outcome = "declined" => ~HasIntent(r.key)
          /\ charges' = processorCreate(r, outcome)
          /\ IF outcome = "succeeded"
             THEN LET paid == markPaid(carts, stock, checkoutId)
                  IN /\ carts' = paid.carts
                     /\ stock' = paid.stock
             ELSE UNCHANGED <<carts, stock>>

\* a request to the endpoint from whoever holds `token`
checkoutPayPOST(token, checkoutId, paymentMethodId, outcome) ==
  /\ checkoutPayEffect(token, checkoutId, paymentMethodId, outcome)
  /\ UNCHANGED <<store, paymentMethodVault, now, chatActive, inflight,
                 mandates, pmIssued, pending, browserVars, authVars>>

(***************************************************************************)
(* Browser checkout: completeCheckout (tools.ts, browser variant) and      *)
(* browser-automation.ts                                                   *)
(***************************************************************************)
MaxBrowsers == 2

\* card details as revealCardDetails returns them (Null: field missing)
CompleteCard ==
  [isVisaPayment |-> FALSE, visaCredentials |-> None,
   cardNumber |-> "4242424242424242", cardExpiryDate |-> "12/30",
   cardCvv |-> "123", last4Digits |-> "4242"]
VisaCard ==
  [isVisaPayment |-> TRUE,
   visaCredentials |-> Some([cardNumber |-> "4000000000001234",
                             expiryMonth |-> "12", expiryYear |-> "30",
                             cvv |-> "456"]),
   cardNumber |-> Null, cardExpiryDate |-> Null, cardCvv |-> Null,
   last4Digits |-> "1234"]
VisaCardNoCvv ==
  [VisaCard EXCEPT !.visaCredentials =
     Some([cardNumber |-> "4000000000001234", expiryMonth |-> "12",
           expiryYear |-> "30", cvv |-> Null])]
CardInputs ==
  {CompleteCard,
   [CompleteCard EXCEPT !.cardNumber = Null],
   [CompleteCard EXCEPT !.cardExpiryDate = Null],
   [CompleteCard EXCEPT !.cardCvv = Null],
   VisaCard, VisaCardNoCvv}

\* `${a}${b}` and s.replace("/", "") on the expiry strings above
ExpiryDigits(s) == IF s \in {"12/30", "1230"} THEN "1230" ELSE s

\* extractCardCredentials: error = Null when it returns the three fields
extractCardCredentials(card) ==
  IF card.isVisaPayment /\ card.visaCredentials # None
  THEN LET vc == Val(card.visaCredentials)
       IN IF vc.cardNumber = Null \/ vc.expiryMonth = Null
             \/ vc.expiryYear = Null \/ vc.cvv = Null
          THEN [error |-> "Incomplete Visa credentials from Nekuda",
                number |-> Null, expiry |-> Null, cvc |-> Null]
          ELSE [error |-> Null, number |-> vc.cardNumber,
                expiry |-> ExpiryDigits("1230"), cvc |-> vc.cvv]
  ELSE IF card.cardNumber = Null \/ card.cardExpiryDate = Null
  THEN [error |-> IF card.cardNumber = Null
                  THEN "Incomplete card data from Nekuda: missing cardNumber"
                  ELSE "Incomplete card data from Nekuda: missing cardExpiryDate",
        number |-> Null, expiry |-> Null, cvc |-> Null]
  ELSE [error |-> Null, number |-> card.cardNumber,
        expiry |-> ExpiryDigits(card.cardExpiryDate),
        cvc |-> IF card.cardCvv = Null THEN "" ELSE card.cardCvv]

\* What a tool hands back to the agent: fields names the keys of the
\* returned object; message is an opaque text where the key is present.
ErrorResult(error, retryable) ==
  [fields |-> {"error", "retryable"}, error |-> error, retryable |-> retryable]
ErrorOnlyResult(error) ==
  [fields |-> {"error"}, error |-> error, retryable |-> FALSE]
CvvExpiredResult ==
  [fields |-> {"error", "action", "message"}, error |-> "CVV_EXPIRED",
   retryable |-> FALSE]
IncompleteResult(message) ==
  [fields |-> {"error", "message", "retryable"},
   error |-> "INCOMPLETE_CARD_DATA", retryable |-> TRUE]
SuccessResult == [fields |-> {"success"}, error |-> Null, retryable |-> FALSE]

\* the object handleNekudaError returns
nekudaErrorResult(err) ==
  ErrorResult(handleNekudaError(err).error, handleNekudaError(err).retryable)

\* What the wallet authority does in one completeCheckout call: the stage
\* whose call throws err ("token", "reveal", "billing"), or "ok" when all
\* three calls return; card is what revealCardDetails returns.
BrowserRevealOutcomes ==
  {[stage |-> st, err |-> e, card |-> CompleteCard] :
     st \in {"token", "reveal", "billing"}, e \in UpstreamErrors}
  \cup {[stage |-> "ok", err |-> NoError, card |-> c] : c \in CardInputs}

\* completeCheckout, steps 1 to 3 and the first line of step 4: the session
\* store it leaves, and the object it returns (None: it goes on to the
\* browser)
completeCheckoutReveal(W, t, sid, o) ==
  IF o.stage = "token"
  THEN [W |-> applyNekudaError(W, t, sid, o.err),
        result |-> Some(nekudaErrorResult(o.err))]
  ELSE
    LET W1 == updateSession(W, t, sid,
                 [browserCheckoutStatus |-> "reveal_token_obtained"])
        extracted == extractCardCredentials(o.card)
    IN IF o.stage = "reveal"
       THEN IF IsNekudaApiError(o.err) /\ isCvvExpiredError(o.err)
            THEN [W |-> updateSession(W1, t, sid,
                          [browserCheckoutStatus |-> "cvv_expired"]),
                  result |-> Some(CvvExpiredResult)]
            ELSE [W |-> applyNekudaError(W1, t, sid, o.err),
                  result |-> Some(nekudaErrorResult(o.err))]
       ELSE IF extracted.error # Null
       THEN [W |-> updateSession(W1, t, sid, [error |-> extracted.error]),
             result |-> Some(IncompleteResult(extracted.error))]
       ELSE
         LET W2 == updateSession(W1, t, sid,
                      [browserCheckoutStatus |-> "card_revealed"])
         IN IF o.stage = "billing"
            THEN [W |-> applyNekudaError(W2, t, sid, o.err),
                  result |-> Some(nekudaErrorResult(o.err))]
            ELSE [W |-> updateSession(
                          updateSession(W2, t, sid,
                            [browserCheckoutStatus |-> "billing_obtained"]),
                          t, sid, [browserCheckoutStatus |-> "browser_filling"]),
                  result |-> None]

\* completeCheckout up to the call of completeCheckoutViasBrowser
completeCheckout(r, sid, checkoutId, o) ==
  /\ chatActive[sid]
  /\ runs[r].pc = "idle"
  /\ LET c == completeCheckoutReveal(World, now, sid, o)
         checkoutToken == generateCheckoutToken(checkoutId, now)
         minted == [token |-> checkoutToken, checkoutId |-> checkoutId,
                    mintedAt |-> now]
     IN /\ SetWorld(c.W)
        /\ IF c.result # None
           THEN UNCHANGED <<runs, tokens>>
           ELSE /\ Cardinality(tokens \cup {minted}) <= MaxTokens
                /\ tokens' = tokens \cup {minted}
                /\ runs' = [runs EXCEPT ![r] =
                     [pc |-> "getBrowser", sid |-> sid,
                      checkoutId |-> checkoutId, token |-> checkoutToken,
                      browser |-> 0,
                      card |-> Some(extractCardCredentials(o.card))]]
  /\ UNCHANGED <<stock, carts, now, chatActive, charges, inflight, mandates,
                 pmIssued, pending, browserInstance, browsers, launched, authVars>>

\* browserInstance.isConnected()
isConnected(b) == b \in browsers

\* getBrowser up to its await: the running browser is handed out, or a
\* launch is started
getBrowser(r) ==
  /\ runs[r].pc = "getBrowser"
  /\ IF browserInstance # None /\ isConnected(Val(browserInstance))
     THEN runs' = [runs EXCEPT ![r].pc = "page",
                                ![r].browser = Val(browserInstance)]
     ELSE runs' = [runs EXCEPT ![r].pc = "launch"]
  /\ UNCHANGED <<stock, carts, store, paymentMethodVault, now, chatActive,
                 charges, inflight, mandates, pmIssued, pending, tokens,
                 browserInstance, browsers, launched, authVars>>

\* the catch block of completeCheckout's step 4
browserCheckoutThrew(W, t, sid, message) ==
  updateSession(W, t, sid,
    [browserCheckoutStatus |-> "failed", paymentStatus |-> "failed",
     error |-> message])

\* chromium.launch returns (browserInstance = await chromium.launch(...)),
\* or throws into the catch block of completeCheckout
launch(r, ok) ==
  /\ runs[r].pc = "launch"
  /\ IF ok
     THEN /\ launched < MaxBrowsers
          /\ launched' = launched + 1
          /\ browsers' = browsers \cup {launched + 1}
          /\ browserInstance' = Some(launched + 1)
          /\ runs' = [runs EXCEPT ![r].pc = "page", ![r].browser = launched + 1]
          /\ UNCHANGED <<store, paymentMethodVault>>
     ELSE /\ SetWorld(browserCheckoutThrew(World, now, runs[r].sid,
                                           "Failed to launch browser"))
          /\ runs' = [runs EXCEPT ![r].pc = "closeBrowser"]
          /\ UNCHANGED <<launched, browsers, browserInstance>>
  /\ UNCHANGED <<stock, carts, now, chatActive, charges, inflight, mandates,
                 pmIssued, pending, tokens, authVars>>

\* What happens in the page: a step of the automation throws before the
\* form is submitted ("exception"), or the form is submitted and the page's
\* request to the pay endpoint is handled with the processor's outcome.
PageOutcomes == ProcessorOutcomes \cup {"exception", "fill_timeout"}

\* The message of the error a timed-out fill(value) rejects with: the
\* message ends with the call log of the action, and the log names the
\* action with its argument.
FillTimeout(value) ==
  IF value = "4242424242424242"
  THEN "locator.fill: Timeout 30000ms exceeded. Call log: fill(4242424242424242)"
  ELSE IF value = "4000000000001234"
  THEN "locator.fill: Timeout 30000ms exceeded. Call log: fill(4000000000001234)"
  ELSE "locator.fill: Timeout 30000ms exceeded. Call log: fill()"

\* result.error of completeCheckoutViasBrowser when a step throws: the
\* message of what was thrown
thrownMessage(run, o) ==
  IF o = "fill_timeout" THEN FillTimeout(Val(run.card).number)
  ELSE "Browser checkout failed"

\* completeCheckoutViasBrowser from browser.newContext() to its return, and
\* completeCheckout's handling of what it returns.  The page sends the
\* run's token as its cookie.
browserCheckout(r, o) ==
  /\ runs[r].pc = "page"
  /\ ~isConnected(runs[r].browser) => o = "exception"
  /\ o = "fill_timeout" => Val(runs[r].card).number # Null
  /\ LET run == runs[r]
         response == checkoutPayResponse(run.token, run.checkoutId, 9, o)
     IN IF o \in {"exception", "fill_timeout"}
        THEN /\ SetWorld(browserCheckoutThrew(World, now, run.sid,
                                              thrownMessage(run, o)))
             /\ UNCHANGED <<charges, carts, stock>>
        ELSE /\ checkoutPayEffect(run.token, run.checkoutId, 9, o)
             /\ IF response.status = 200
                THEN SetWorld(updateSession(World, now, run.sid,
                        [browserCheckoutStatus |-> "completed",
                         orderId |-> Some(run.checkoutId),
                         stripePaymentIntentId |->
                           Some(intentId(payRequest(run.checkoutId, 9))),
                         paymentStatus |-> "succeeded"]))
                ELSE SetWorld(browserCheckoutThrew(World, now, run.sid,
                                                   response.error))
  /\ runs' = [runs EXCEPT ![r].pc = "closeBrowser"]
  /\ UNCHANGED <<now, chatActive, inflight, mandates, pmIssued, pending,
                 tokens, browserInstance, browsers, launched, authVars>>

\* the object completeCheckout returns after the browser step
browserCheckoutResult(r, o) ==
  LET run == runs[r]
      response == checkoutPayResponse(run.token, run.checkoutId, 9, o)
  IN IF o \in {"exception", "fill_timeout"}
     THEN ErrorResult(thrownMessage(run, o), TRUE)
     ELSE IF response.status = 200 THEN SuccessResult
     ELSE ErrorResult(response.error,
                      response.error # "CHECKOUT_SESSION_EXPIRED")

\* closeBrowser up to its await: nothing to do without a browserInstance;
\* otherwise browserInstance.close() is called and the browser goes down
closeBrowser(r) ==
  /\ runs[r].pc = "closeBrowser"
  /\ IF browserInstance = None
     THEN /\ runs' = [runs EXCEPT ![r] = IdleRun]
          /\ UNCHANGED browsers
     ELSE /\ browsers' = browsers \ {Val(browserInstance)}
          /\ runs' = [runs EXCEPT ![r].pc = "closing"]
  /\ UNCHANGED <<stock, carts, store, paymentMethodVault, now, chatActive,
                 charges, inflight, mandates, pmIssued, pending, tokens,
                 browserInstance, launched, authVars>>

\* closeBrowser after its await (browserInstance = null), and the return of
\* completeCheckout
closed(r) ==
  /\ runs[r].pc = "closing"
  /\ browserInstance' = None
  /\ runs' = [runs EXCEPT ![r] = IdleRun]
  /\ UNCHANGED <<stock, carts, store, paymentMethodVault, now, chatActive,
                 charges, inflight, mandates, pmIssued, pending, tokens,
                 browsers, launched, authVars>>

(***************************************************************************)
(* Specification                                                           *)
(***************************************************************************)
\* Spec: the merchant tools, credential realization and settlement.  The
\* mandate id that requestCardRevealToken forwards is the caller's; what the
\* wallet authority makes of it is the outcome o.
Next ==
  \/ \E d \in TickSteps : Tick(d)
  \/ \E sid \in Sessions : chatPOST(sid)
  \/ \E sid \in Sessions : createCart(sid)
  \/ \E sid \in Sessions, c \in CartIdInputs, p \in Products, q \in QtyInputs :
        addToCart(sid, c, p, q)
  \/ \E sid \in Sessions, c \in CartIdInputs, p \in Products :
        removeFromCart(sid, c, p)
  \/ \E sid \in Sessions, c \in CartIdInputs : checkoutCart(sid, c)
  \/ \E sid \in Sessions, o \in RevealOutcomes : requestCardRevealToken(sid, o)
  \/ \E sid \in Sessions, c \in CartIdInputs : executePayment(sid, c)
  \/ \E i \in 1..MaxInflight, o \in ProcessorOutcomes : executePaymentSettle(i, o)

Spec == Init /\ [][Next]_vars

\* SpecMandate: the merchant tools and the authorization stage
NextMandate ==
  \/ \E d \in TickSteps : Tick(d)
  \/ \E sid \in Sessions : chatPOST(sid)
  \/ \E sid \in Sessions : createCart(sid)
  \/ \E sid \in Sessions, c \in CartIdInputs, p \in Products, q \in QtyInputs :
        addToCart(sid, c, p, q)
  \/ \E sid \in Sessions, c \in CartIdInputs, p \in Products :
        removeFromCart(sid, c, p)
  \/ \E sid \in Sessions, c \in CartIdInputs : checkoutCart(sid, c)
  \/ \E sid \in Sessions, c \in CartIdInputs, o \in MandateOutcomes :
        createMandate(sid, c, o)

SpecMandate == Init /\ [][NextMandate]_vars

\* SpecLegacy: the caller-priced tool set, the same merchant tools with its
\* createMandate
NextLegacy ==
  \/ \E d \in TickSteps : Tick(d)
  \/ \E sid \in Sessions : chatPOST(sid)
  \/ \E sid \in Sessions : createCart(sid)
  \/ \E sid \in Sessions, c \in CartIdInputs, p \in Products, q \in QtyInputs :
        addToCart(sid, c, p, q)
  \/ \E sid \in Sessions, c \in CartIdInputs, p \in Products :
        removeFromCart(sid, c, p)
  \/ \E sid \in Sessions, c \in CartIdInputs : checkoutCart(sid, c)
  \/ \E sid \in Sessions, pr \in PriceInputs, o \in MandateOutcomes :
        createMandateLegacy(sid, pr, o)

SpecLegacy == Init /\ [][NextLegacy]_vars

\* SpecExpiry: the tools up to the submission of the charge, on a clock that
\* steps around the credential window
NextExpiry ==
  \/ \E d \in ExpirySteps : Tick(d)
  \/ \E sid \in Sessions : chatPOST(sid)
  \/ \E sid \in Sessions : createCart(sid)
  \/ \E sid \in Sessions, c \in CartIdInputs, p \in Products, q \in QtyInputs :
        addToCart(sid, c, p, q)
  \/ \E sid \in Sessions, c \in CartIdInputs : checkoutCart(sid, c)
  \/ \E sid \in Sessions, o \in RevealOutcomes : requestCardRevealToken(sid, o)
  \/ \E sid \in Sessions, c \in CartIdInputs : executePayment(sid, c)

SpecExpiry == Init /\ [][NextExpiry]_vars

\* SpecRedis: callers of the Redis-backed cart repository, whose calls overlap
NextRedis ==
  \/ \E sid \in Sessions : redisCartCreate(UserOf(sid))
  \/ \E op \in RedisCartOps, c \in CartIdInputs, p \in Products, q \in QtyInputs :
        redisCartGet(op, c, p, q)
  \/ \E i \in 1..MaxPending : redisCartSet(i)

SpecRedis == Init /\ [][NextRedis]_vars

\* SpecSettle: a cart of the Redis-backed repository is filled and checked
\* out call by call, and its settlements (markPaid) overlap
SettleQtyInputs == {4, 8}

NextSettle ==
  \/ \E sid \in Sessions : redisCartCreate(UserOf(sid))
  \/ \E op \in {"addItem", "checkout"}, c \in CartIdInputs, p \in Products,
        q \in SettleQtyInputs :
        pending = <<>> /\ redisCartGet(op, c, p, q)
  \/ \E i \in 1..Len(pending) : pending[i].op # "markPaid" /\ redisCartSet(i)
  \/ \E c \in CartIdInputs :
        (\A k \in 1..Len(pending) : pending[k].op = "markPaid") /\ redisMarkPaidGet(c)
  \/ \E i \in 1..MaxPending : redisMarkPaidSet(i)

SpecSettle == Init /\ [][NextSettle]_vars

\* SpecStock: two carts of one session are filled, checked out and paid one
\* after the other, so that items of one product are added while its stock
\* goes down
NextStock ==
  \/ \E sid \in Sessions : chatPOST(sid)
  \/ \E sid \in Sessions : createCartIn(sid, CheckoutIdInputs)
  \/ \E sid \in Sessions, c \in CheckoutIdInputs, q \in SettleQtyInputs :
        addToCart(sid, c, "prod_001", q)
  \/ \E sid \in Sessions, c \in CheckoutIdInputs : checkoutCart(sid, c)
  \/ \E sid \in Sessions :
        inflight = <<>> /\ requestCardRevealToken(sid, [stage |-> "ok", err |-> NoError])
  \/ \E sid \in Sessions, c \in CheckoutIdInputs :
        inflight = <<>> /\ executePayment(sid, c)
  \/ executePaymentSettle(1, "succeeded")

SpecStock == Init /\ [][NextStock]_vars

\* SpecToken: carts, the minting of checkout tokens by completeCheckout, and
\* requests to the pay endpoint by whoever holds a token, as minted or with
\* one character of its signature segment replaced.
SignatureEdits(token) ==
  {[token EXCEPT ![3][k] = ch] : k \in 1..Len(token[3]), ch \in HexChars}
    \ {token}

\* the edits a request is sent with: a digit, a letter of either case and a
\* character that is no hex digit, at any place of the signature
PresentedEdits(token) ==
  {[token EXCEPT ![3][k] = ch] :
     k \in 1..Len(token[3]), ch \in {"0", "c", "C", "g"}} \ {token}

TokenInputs ==
  {m.token : m \in tokens} \cup UNION {PresentedEdits(m.token) : m \in tokens}

NextToken ==
  \/ \E d \in TokenSteps : now + d <= MaxTokenTime /\ Tick(d)
  \/ \E sid \in Sessions : chatPOST(sid)
  \/ \E sid \in Sessions : createCart(sid)
  \/ \E sid \in Sessions, c \in CartIdInputs, q \in QtyInputs :
       addToCart(sid, c, "prod_001", q)
  \/ \E sid \in Sessions, c \in CartIdInputs : checkoutCart(sid, c)
  \/ \E r \in Runs, sid \in Sessions, c \in CheckoutIdInputs,
        o \in {x \in BrowserRevealOutcomes : x.card = CompleteCard /\ x.stage = "ok"} :
       completeCheckout(r, sid, c, o)
  \/ \E token \in TokenInputs, c \in CheckoutIdInputs,
        pm \in PagePaymentMethods, o \in ProcessorOutcomes :
       checkoutPayPOST(token, c, pm, o)

SpecToken == Init /\ [][NextToken]_vars

\* SpecBrowser: one cart, and completeCheckout calls running side by side
\* on the module's one browserInstance.
NextBrowser ==
  \/ \E sid \in Sessions : chatPOST(sid)
  \/ \E sid \in Sessions : createCart(sid)
  \/ \E sid \in Sessions, c \in CartIdInputs, q \in QtyInputs :
       addToCart(sid, c, "prod_001", q)
  \/ \E sid \in Sessions, c \in CartIdInputs : checkoutCart(sid, c)
  \/ \E r \in Runs, sid \in Sessions, c \in CartIdInputs,
        o \in {x \in BrowserRevealOutcomes : x.stage = "ok" /\ x.card = CompleteCard} :
       completeCheckout(r, sid, c, o)
  \/ \E r \in Runs : getBrowser(r)
  \/ \E r \in Runs, ok \in BOOLEAN : launch(r, ok)
  \/ \E r \in Runs, o \in PageOutcomes : browserCheckout(r, o)
  \/ \E r \in Runs : closeBrowser(r)
  \/ \E r \in Runs : closed(r)

SpecBrowser == Init /\ [][NextBrowser]_vars

\* SpecReveal: credential realization in both variants, with every outcome
\* of the upstream calls; one completeCheckout call at a time.
NextReveal ==
  \/ \E sid \in Sessions : chatPOST(sid)
  \/ \E sid \in Sessions, o \in RevealOutcomesAll : requestCardRevealToken(sid, o)
  \/ \E sid \in Sessions, c \in CartIdInputs, o \in BrowserRevealOutcomes :
       completeCheckout(1, sid, c, o)
  \/ getBrowser(1)
  \/ \E ok \in BOOLEAN : launch(1, ok)
  \/ \E o \in PageOutcomes : browserCheckout(1, o)
  \/ closeBrowser(1)
  \/ closed(1)

SpecReveal == Init /\ [][NextReveal]_vars

\* SpecTtl: the server-tokenize tool set, the agent waiting for a charge to
\* be answered before its next payment tool call, on a clock that visits the
\* instants on both sides of the two session TTLs (30 and 60 minutes after
\* minute 1, and 30 minutes after minutes 31 and 32)
TtlInstants == {31, 32, 61, 62}

NextTtl ==
  \/ \E t \in TtlInstants : t > now /\ Tick(t - now)
  \/ \E sid \in Sessions : chatPOST(sid)
  \/ \E sid \in Sessions : createCart(sid)
  \/ \E sid \in Sessions, c \in CartIdInputs, q \in QtyInputs :
        addToCart(sid, c, "prod_001", q)
  \/ \E sid \in Sessions, c \in CartIdInputs : checkoutCart(sid, c)
  \/ \E sid \in Sessions, o \in RevealOutcomes :
        inflight = <<>> /\ requestCardRevealToken(sid, o)
  \/ \E sid \in Sessions, c \in CartIdInputs :
        inflight = <<>> /\ executePayment(sid, c)
  \/ \E o \in ProcessorOutcomes : executePaymentSettle(1, o)

SpecTtl == Init /\ [][NextTtl]_vars

\* SpecOwner: the merchant tools of one user's agent session, and carts
\* created over the merchant API by that user or by another one
Users == {"u1", "u2"}

\* POST /api/merchant/cart: a cart for the authenticated user
cartPOST(userId) ==
  /\ Len(carts) + 1 \in CartIdInputs
  /\ carts' = cartCreate(carts, userId)
  /\ UNCHANGED <<stock, store, paymentMethodVault, now, chatActive, charges,
                 inflight, mandates, pmIssued, pending, browserVars, authVars>>

\* POST /api/merchant/cart/:id/checkout: the response status, and the
\* request itself; only the owner's request reaches cartRepo.checkout
cartCheckoutStatus(userId, cartId) ==
  IF ~CartExists(carts, cartId) THEN 404
  ELSE IF carts[cartId].userId # userId THEN 403
  ELSE IF checkout(carts, cartId).error # Null THEN 400
  ELSE 200

cartCheckoutPOST(userId, cartId) ==
  /\ carts' = IF cartCheckoutStatus(userId, cartId) \in {404, 403} THEN carts
              ELSE checkout(carts, cartId).carts
  /\ UNCHANGED <<stock, store, paymentMethodVault, now, chatActive, charges,
                 inflight, mandates, pmIssued, pending, browserVars, authVars>>

NextOwner ==
  \/ \E u \in Users : cartPOST(u)
  \/ \E u \in Users, c \in CartIdInputs : cartCheckoutPOST(u, c)
  \/ \E sid \in Sessions : chatPOST(sid)
  \/ \E sid \in Sessions : createCart(sid)
  \/ \E sid \in Sessions, c \in CartIdInputs, p \in Products, q \in QtyInputs :
        addToCart(sid, c, p, q)
  \/ \E sid \in Sessions, c \in CartIdInputs, p \in Products :
        removeFromCart(sid, c, p)
  \/ \E sid \in Sessions, c \in CartIdInputs : checkoutCart(sid, c)

SpecOwner == Init /\ [][NextOwner]_vars

(***************************************************************************)
(* Magic-link sign-in (lib/auth.ts, api/auth/magic-link, api/auth/verify)  *)
(* auth.ts is present in two forms: tokens signed with HMAC and verified   *)
(* without state, and random tokens kept in a store until used.            *)
(***************************************************************************)
TOKEN_TTL_MS == 10
MaxLinks == 2
MaxSignIns == 3

\* minutes at which requests arrive: a link made at minute 1 expires with
\* minute 11
AuthInstants == {2, 11, 12}

\* Buffer.from(normalized): the bytes of the address
Utf8(email) == IF email = "u1" THEN <<117, 49>> ELSE <<117, 50>>

\* signed form: base64url(email) + "." + expiresAt_hex + "." + hmac_hex
generateMagicToken(email, t) ==
  LET emailB64 == toBase64url(Utf8(email))
      expHex == toString16(t + TOKEN_TTL_MS)
  IN <<emailB64, expHex, sign(emailB64, expHex)>>

\* the address the token signs in (its bytes), None for null
verifyMagicToken(token, t) ==
  IF Len(token) # 3 THEN None
  ELSE LET emailB64 == token[1]
           expHex == token[2]
           a == fromHex(token[3])
           b == fromHex(sign(emailB64, expHex))
           expiresAt == parseInt16(expHex)
       IN IF Len(a) # Len(b) \/ a # b THEN None
          ELSE IF expiresAt # None /\ t > Val(expiresAt) THEN None
          ELSE Some(fromBase64url(emailB64))

\* POST /api/auth/magic-link
magicLinkPOST(email) ==
  /\ magicLinks' = magicLinks \cup {generateMagicToken(email, now)}
  /\ Cardinality(magicLinks') <= MaxLinks
  /\ UNCHANGED <<stock, carts, store, paymentMethodVault, now, chatActive,
                 charges, inflight, mandates, pmIssued, pending, browserVars,
                 signIns, tokenStore, uuids, signInsStored>>

\* GET /api/auth/verify?token=...: setSession(email) when the token verifies
verifyGET(token) ==
  /\ IF verifyMagicToken(token, now) # None
     THEN /\ Len(signIns) < MaxSignIns
          /\ signIns' = Append(signIns, token)
     ELSE UNCHANGED signIns
  /\ UNCHANGED <<stock, carts, store, paymentMethodVault, now, chatActive,
                 charges, inflight, mandates, pmIssued, pending, browserVars,
                 magicLinks, tokenStore, uuids, signInsStored>>

\* stored form: pruneExpiredTokens, then a fresh random token in the store
pruneExpiredTokens(ts, t) == {e \in ts : ~(t > e.expiresAt)}

magicLinkPOSTStored(email) ==
  /\ uuids < MaxLinks
  /\ uuids' = uuids + 1
  /\ tokenStore' = pruneExpiredTokens(tokenStore, now)
                     \cup {[token |-> uuids + 1, email |-> email,
                            expiresAt |-> now + TOKEN_TTL_MS]}
  /\ UNCHANGED <<stock, carts, store, paymentMethodVault, now, chatActive,
                 charges, inflight, mandates, pmIssued, pending, browserVars,
                 magicLinks, signIns, signInsStored>>

\* stored form of verifyMagicToken: the entry is deleted whenever it is found
verifyGETStored(token) ==
  /\ LET found == {e \in tokenStore : e.token = token}
     IN /\ tokenStore' = tokenStore \ found
        /\ IF \E e \in found : ~(now > e.expiresAt)
           THEN /\ Len(signInsStored) < MaxSignIns
                /\ signInsStored' = Append(signInsStored, token)
           ELSE UNCHANGED signInsStored
  /\ UNCHANGED <<stock, carts, store, paymentMethodVault, now, chatActive,
                 charges, inflight, mandates, pmIssued, pending, browserVars,
                 magicLinks, signIns, uuids>>

\* SpecAuth: users asking for links and following them, any link any number
\* of times
NextAuth ==
  \/ \E t \in AuthInstants : t > now /\ Tick(t - now)
  \/ \E u \in Users : magicLinkPOST(u)
  \/ \E token \in magicLinks : verifyGET(token)
  \/ \E u \in Users : magicLinkPOSTStored(u)
  \/ \E token \in 1..MaxLinks : verifyGETStored(token)

SpecAuth == Init /\ [][NextAuth]_vars

\* SpecApproval: one session buying from two carts with the server-tokenize
\* tool set, one line per cart: mandate, realization and settlement, every
\* upstream call succeeding, one charge in flight at a time.  The wallet
\* authority gives a reveal token only for a mandate it holds.
NextApproval ==
  \/ \E sid \in Sessions : chatPOST(sid)
  \/ \E sid \in Sessions : createCartIn(sid, CheckoutIdInputs)
  \/ \E sid \in Sessions, c \in CheckoutIdInputs, p \in Products, q \in QtyInputs :
        CartExists(carts, c) /\ carts[c].items = <<>> /\ addToCart(sid, c, p, q)
  \/ \E sid \in Sessions, c \in CheckoutIdInputs : checkoutCart(sid, c)
  \/ \E sid \in Sessions, c \in CheckoutIdInputs :
        createMandate(sid, c, [stage |-> "ok", err |-> NoError])
  \/ \E sid \in Sessions, mandateId \in 1..Len(mandates) :
        inflight = <<>> /\ requestCardRevealToken(sid, [stage |-> "ok", err |-> NoError])
  \/ \E sid \in Sessions, c \in CheckoutIdInputs :
        inflight = <<>> /\ executePayment(sid, c)
  \/ executePaymentSettle(1, "succeeded")

SpecApproval == Init /\ [][NextApproval]_vars

(***************************************************************************)
(* Properties                                                              *)
(***************************************************************************)
HasSession(sid) == store[sid] # None
SessionOf(sid) == Val(store[sid]).state

\* round(100 x sum of catalog price x quantity), in cents
ExpectedCents(items) == (serverTotalLoop(items) + 5) \div 10

\* units of product p held by the lines of a cart
RECURSIVE QuantityOf(_, _)
QuantityOf(items, p) ==
  IF items = <<>> THEN 0
  ELSE (IF Head(items).productId = p THEN Head(items).quantity ELSE 0)
         + QuantityOf(Tail(items), p)

\* C1: for any checkout id, at most one charge (PaymentIntent) ever exists at
\* the payment processor, however many settlement invocations were made for
\* it, overlapping ones and retries after a lost response included.
C1_OneChargePerCheckout ==
  \A a \in charges : \A b \in charges : a.checkoutId = b.checkoutId => a = b

\* a settlement that timed out after the charge was created was retried and
\* the retry succeeded, with one charge at the processor
C1_RetryAfterTimeout ==
  /\ Cardinality(charges) = 1
  /\ inflight = <<>>
  /\ \E sid \in Sessions :
       /\ HasSession(sid)
       /\ SessionOf(sid).paymentStatus = "succeeded"
       /\ SessionOf(sid).error = "Request timed out"

\* C2: every charge request submitted for a checkout, and every charge created
\* from one, carries round(100 x sum over the cart's lines of catalog price x
\* quantity) as its amount in cents.
C2_ChargeAmountFromCatalog ==
  /\ \A ch \in charges :
       /\ CartExists(carts, ch.checkoutId)
       /\ ch.amount = ExpectedCents(carts[ch.checkoutId].items)
  /\ \A i \in 1..Len(inflight) :
       /\ CartExists(carts, inflight[i].checkoutId)
       /\ inflight[i].amount = ExpectedCents(carts[inflight[i].checkoutId].items)

\* a charge exists for a cart of two lines, eight units each
C2_TwoLineCharge ==
  \E ch \in charges :
    /\ Len(carts[ch.checkoutId].items) = 2
    /\ ch.amount = 8 * 8999 + 8 * 12999

\* C3: no charge request is submitted with a payment reference that was
\* realized more than CREDENTIAL_TTL_MS before the submission.
C3_NoStaleReferenceSubmitted ==
  \A i \in 1..Len(inflight) :
    inflight[i].submittedAt - pmIssued[inflight[i].payment_method]
      <= CREDENTIAL_TTL_MS

\* C4: whenever Session State records payment status succeeded with an order
\* id, the cart of that order is paid.
C4_SucceededImpliesPaid ==
  \A sid \in Sessions :
    (HasSession(sid) /\ SessionOf(sid).paymentStatus = "succeeded")
      => /\ SessionOf(sid).orderId # None
         /\ CartExists(carts, Val(SessionOf(sid).orderId))
         /\ carts[Val(SessionOf(sid).orderId)].status = "paid"

\* C5: every approval request received by the wallet authority is for a cart
\* that has been checked out, and for exactly the catalog total of that cart
\* in cents.
C5_MandateForServerTotal ==
  \A k \in 1..Len(mandates) :
    /\ mandates[k].checkoutId # None
    /\ CartExists(carts, Val(mandates[k].checkoutId))
    /\ carts[Val(mandates[k].checkoutId)].status \in {"checked_out", "paid"}
    /\ mandates[k].price = ExpectedCents(carts[Val(mandates[k].checkoutId)].items)

\* C6: stock changes only in a step that moves a checked_out cart to paid, and
\* then by exactly the quantities of that cart's lines.
C6_MarkPaidAllOrNothing ==
  [][stock' # stock =>
       \E c \in 1..Len(carts) :
         /\ carts[c].status = "checked_out"
         /\ carts'[c].status = "paid"
         /\ \A p \in Products :
              stock'[p] = stock[p] - QuantityOf(carts[c].items, p)]_vars

\* C7: when the processor declines a charge, the handler leaves the session
\* with payment status failed and the processor's message, the cart
\* checked_out, and every product's stock as it was.
C7_DeclineRecorded ==
  [][\A i \in 1..MaxInflight :
       executePaymentSettle(i, "declined") =>
         /\ store'[inflight[i].sid] # None
         /\ Val(store'[inflight[i].sid]).state.paymentStatus = "failed"
         /\ Val(store'[inflight[i].sid]).state.error = "Your card was declined."
         /\ carts'[inflight[i].checkoutId].status = "checked_out"
         /\ stock' = stock]_vars

C9_CheckoutTotalFromCatalog ==
  \A c \in 1..Len(carts) :
    carts[c].status \in {"checked_out", "paid"} =>
      /\ carts[c].total = serverTotalLoop(carts[c].items)
      /\ \A k \in 1..Len(carts[c].items) :
           carts[c].items[k].unitPrice = Price[carts[c].items[k].productId]

\* a cart of two lines has been checked out
C9_TwoLineCheckout ==
  \E c \in 1..Len(carts) :
    carts[c].status = "checked_out" /\ Len(carts[c].items) = 2

C11_StatusMovesForward ==
  [][\A c \in 1..Len(carts) :
       \/ carts'[c].status = carts[c].status
       \/ carts[c].status = "active" /\ carts'[c].status = "checked_out"
       \/ carts[c].status = "checked_out" /\ carts'[c].status = "paid"]_vars

\* C12: on a cart that is checked_out or paid, addItem, removeItem, reduceItem
\* and clear fail with the not-active error and change nothing, and no step
\* changes the items or the total of a cart that is checked_out or paid.
C12_FrozenAfterCheckout ==
  /\ [](\A c \in 1..Len(carts) :
          carts[c].status \in {"checked_out", "paid"} =>
            /\ \A p \in Products, q \in QtyInputs :
                 /\ addItem(carts, stock, c, p, q) =
                      [carts |-> carts, error |-> "Cart is not active"]
                 /\ reduceItem(carts, c, p, q) =
                      [carts |-> carts, error |-> "Cart is not active"]
                 /\ removeItem(carts, c, p) =
                      [carts |-> carts, error |-> "Cart is not active"]
            /\ clear(carts, c) = [carts |-> carts, error |-> "Cart is not active"])
  /\ [][\A c \in 1..Len(carts) :
          carts[c].status \in {"checked_out", "paid"} =>
            /\ carts'[c].items = carts[c].items
            /\ carts'[c].total = carts[c].total]_vars

\* units of product p held by the carts that are paid
RECURSIVE PaidQuantity(_, _)
PaidQuantity(cs, p) ==
  IF cs = <<>> THEN 0
  ELSE (IF Head(cs).status = "paid" THEN QuantityOf(Head(cs).items, p) ELSE 0)
         + PaidQuantity(Tail(cs), p)

\* C13: for every product, initial stock minus current stock equals the
\* quantity of that product over the carts that are paid.
C13_StockAccountsForPaid ==
  \A p \in Products : InitialStock[p] - stock[p] = PaidQuantity(carts, p)

\* C14: getOrCreateSession on a live session whose payment status is not
\* terminal leaves the record (and the vault entry) as it is; on one whose
\* status is succeeded or failed it leaves a record with the same session id
\* and every progress field at its default.
C14_GetOrCreateResetsTerminal ==
  \A sid \in Sessions :
    LET existing == getSession(World, now, sid)
        R == getOrCreateSession(World, now, sid, UserOf(sid))
    IN existing # None =>
         IF Val(existing).paymentStatus \in {"succeeded", "failed"}
         THEN /\ R.store[sid] # None
              /\ Val(R.store[sid]).state =
                   [sessionId |-> sid, userId |-> UserOf(sid),
                    cartId |-> None, cartStatus |-> Null, cartTotal |-> None,
                    checkoutId |-> None, mandateId |-> None,
                    mandateStatus |-> Null, revealTokenObtained |-> FALSE,
                    credentialsRevealed |-> FALSE, credentialsRevealedAt |-> None,
                    orderId |-> None, stripePaymentIntentId |-> None,
                    paymentStatus |-> Null, error |-> Null]
         ELSE /\ R.store[sid] = store[sid]
              /\ R.vault[sid] = paymentMethodVault[sid]

\* a session that reached succeeded has been accessed again within the same
\* minute and holds the defaults, the charge of its order still on record
C14_ResetAfterSuccess ==
  \E sid \in Sessions :
    /\ now = 1
    /\ \E ch \in charges : carts[ch.checkoutId].status = "paid"
    /\ HasSession(sid)
    /\ SessionOf(sid).sessionId = sid
    /\ SessionOf(sid).paymentStatus = Null
    /\ SessionOf(sid).cartId = None
    /\ SessionOf(sid).orderId = None

\* C15: a session record whose payment status is succeeded or failed is not
\* written again: in every step it stays as it is, is removed, or is replaced
\* by a record holding the defaults.
C15_TerminalNotResumed ==
  [][\A sid \in Sessions :
       (/\ store[sid] # None
        /\ Val(store[sid]).state.paymentStatus \in {"succeeded", "failed"}
        /\ store'[sid] # None)
         => \/ Val(store'[sid]).state = Val(store[sid]).state
            \/ Val(store'[sid]).state = createSessionState(sid, UserOf(sid))]_vars

\* C16: the vault holds an entry for a session id only while the session
\* store holds a record for that id.
C16_VaultEntryHasSession ==
  \A sid \in Sessions : paymentMethodVault[sid] # None => store[sid] # None

\* the step is executePayment returning success for request i (the conjuncts
\* before the last follow from it; they come first so that they are tested
\* first)
ReturnsSuccess(i) ==
  /\ i \in 1..Len(inflight)
  /\ Len(inflight') < Len(inflight)
  /\ \/ store'[inflight[i].sid] = None
     \/ Val(store'[inflight[i].sid]).state.paymentStatus = "succeeded"
  /\ executePaymentSettle(i, "succeeded")

\* C17: when executePayment returns success, the vault holds no payment-method
\* id for its session.
C17_VaultClearedOnSuccess ==
  [][\A i \in 1..MaxInflight :
       ReturnsSuccess(i) => paymentMethodVault'[inflight[i].sid] = None]_vars

\* a session whose payment succeeded with a tokenized payment method, and
\* whose vault entry is absent
C17_SucceededVaultEmpty ==
  \E sid \in Sessions :
    /\ HasSession(sid)
    /\ SessionOf(sid).paymentStatus = "succeeded"
    /\ SessionOf(sid).stripePaymentIntentId # None
    /\ \E ch \in charges : ch.payment_method \in 1..Len(pmIssued)
    /\ paymentMethodVault[sid] = None

\* C18: when a settlement attempt that submitted a charge returns, whatever
\* the processor answered, the vault no longer holds the payment-method id the
\* attempt submitted.
C18_ReferenceDeletedAfterUse ==
  [][\A i \in 1..MaxInflight : \A o \in ProcessorOutcomes :
       executePaymentSettle(i, o) =>
         paymentMethodVault'[inflight[i].sid] # Some(inflight[i].payment_method)]_vars

\* C19: while the vault holds a payment-method id stored more than 55 minutes
\* ago, executePayment fails with CREDENTIALS_EXPIRED, submits nothing and
\* leaves the vault without the entry; while it holds one stored 55 minutes
\* ago or less, executePayment does not fail with CREDENTIALS_EXPIRED.
C19_ExpiryBoundary ==
  /\ [](\A sid \in Sessions : \A c \in CartIdInputs :
          paymentMethodVault[sid] # None =>
            (executePaymentError(World, carts, now, sid, c) = "CREDENTIALS_EXPIRED"
               <=> now - pmIssued[Val(paymentMethodVault[sid])] > 55))
  /\ [][\A sid \in Sessions : \A c \in CartIdInputs :
          (/\ paymentMethodVault[sid] # None
           /\ now - pmIssued[Val(paymentMethodVault[sid])] > 55
           /\ executePayment(sid, c))
            => /\ paymentMethodVault'[sid] = None
               /\ inflight' = inflight]_vars

\* the check as the code makes it, on the session's reveal timestamp: a live
\* session whose credentialsRevealedAt is more than 55 minutes old gets
\* CREDENTIALS_EXPIRED, one whose timestamp is 55 minutes old or less, or
\* absent, does not
ExpiryByRevealTimestamp ==
  \A sid \in Sessions : \A c \in CartIdInputs :
    LET session == getSession(World, now, sid)
    IN executePaymentError(World, carts, now, sid, c) = "CREDENTIALS_EXPIRED"
         <=> /\ session # None
             /\ Val(session).credentialsRevealedAt # None
             /\ now - Val(Val(session).credentialsRevealedAt) >= 56

\* the three preconditions of settlement, each on its own
CredentialsExpired(sid) ==
  LET session == getSession(World, now, sid)
  IN /\ session # None
     /\ Val(session).credentialsRevealedAt # None
     /\ now - Val(Val(session).credentialsRevealedAt) > 55
NoPaymentMethod(sid) == evictExpired(World, now).vault[sid] = None
NotCheckedOut(c) == ~CartExists(carts, c) \/ carts[c].status # "checked_out"

\* C20: executePayment reports credential expiry before a missing payment
\* reference, and a missing payment reference before a cart that is not
\* checked_out; a step that submits a charge request starts in a state where
\* none of the three fails for that request.
C20_PreconditionOrder ==
  /\ [](\A sid \in Sessions : \A c \in CartIdInputs :
          LET error == executePaymentError(World, carts, now, sid, c)
          IN IF CredentialsExpired(sid) THEN error = "CREDENTIALS_EXPIRED"
             ELSE IF NoPaymentMethod(sid)
             THEN error = "No payment method found. Call requestCardRevealToken first."
             ELSE IF NotCheckedOut(c)
             THEN error \in {"Checkout not found",
                             "Cart status is 'active', expected 'checked_out'",
                             "Cart status is 'paid', expected 'checked_out'"}
             ELSE error = Null)
  /\ [][Len(inflight') > Len(inflight) =>
          LET r == inflight'[Len(inflight')]
          IN /\ ~CredentialsExpired(r.sid)
             /\ ~NoPaymentMethod(r.sid)
             /\ ~NotCheckedOut(r.checkoutId)]_vars

\* all three preconditions fail at once: the credential window has passed, an
\* expired attempt has emptied the vault, and the cart is not checked_out
C20_AllThreeFail ==
  \E sid \in Sessions : \E c \in CartIdInputs :
    /\ CredentialsExpired(sid)
    /\ NoPaymentMethod(sid)
    /\ Len(pmIssued) >= 1
    /\ CartExists(carts, c)
    /\ carts[c].status = "active"

(***************************************************************************)
(* Checkout tokens                                                         *)
(***************************************************************************)
\* the signature segment of a token is the one its payload is signed with
SignatureValid(token) == fromHex(token[3]) = fromHex(sign(token[1], token[2]))

\* C21: a token minted for checkout A is rejected for every other checkout
\* B, by verifyCheckoutToken and by the page's read and pay endpoints (401),
\* although its signature is valid and it has not expired.
C21_TokenBoundToCheckout ==
  \A m \in tokens : \A B \in CheckoutIdInputs \ {m.checkoutId} :
    /\ ~verifyCheckoutToken(m.token, B, now)
    /\ checkoutGET(m.token, B) = 401
    /\ checkoutPayError(m.token, B).status = 401
    /\ \A pm \in PagePaymentMethods, o \in ProcessorOutcomes :
         checkoutPayResponse(m.token, B, pm, o).status = 401

\* a live token for checkout 2 is held while cart 1 awaits payment
C21_OtherCheckoutOpen ==
  \E m \in tokens :
    /\ m.checkoutId = 2
    /\ SignatureValid(m.token)
    /\ verifyCheckoutToken(m.token, 2, now)
    /\ CartExists(carts, 1) /\ carts[1].status = "checked_out"
    /\ checkoutGET(m.token, 1) = 401

\* C22: a token minted at T verifies for its checkout at every time up to
\* T + 5 minutes and at no later time, whatever the session store holds; a
\* well-formed token verifies whether or not it is among the minted ones.
C22_TokenWindow ==
  /\ \A m \in tokens :
       verifyCheckoutToken(m.token, m.checkoutId, now)
         <=> now <= m.mintedAt + CHECKOUT_TOKEN_TTL_MS
  /\ \A c \in CheckoutIdInputs, T \in 0..now :
       verifyCheckoutToken(generateCheckoutToken(c, T), c, now)
         <=> now <= T + CHECKOUT_TOKEN_TTL_MS

\* a token is accepted in the last minute of its window
C22_LastMinute ==
  \E m \in tokens :
    /\ now = m.mintedAt + CHECKOUT_TOKEN_TTL_MS
    /\ verifyCheckoutToken(m.token, m.checkoutId, now)
    /\ checkoutGET(m.token, m.checkoutId) # 401

\* C23: a token with any one character of its signature segment replaced
\* fails verification, for every checkout id and at every time.
C23_TamperedSignatureFails ==
  \A m \in tokens : \A edited \in SignatureEdits(m.token) :
    \A c \in CheckoutIdInputs, t \in 0..MaxTokenTime :
      ~verifyCheckoutToken(edited, c, t)

\* what does hold: an edit that changes the bytes the signature decodes to
\* fails verification
SignatureBytesChecked ==
  \A m \in tokens : \A edited \in SignatureEdits(m.token) :
    fromHex(edited[3]) # fromHex(m.token[3]) =>
      \A c \in CheckoutIdInputs, t \in 0..MaxTokenTime :
        ~verifyCheckoutToken(edited, c, t)

(***************************************************************************)
(* Error reporting of the realization stage                                *)
(***************************************************************************)
\* the call leaves the error field and the payment status of the session
\* record as they were
ErrorUntouched(sid) ==
  (store[sid] # None /\ store'[sid] # None) =>
    /\ Val(store'[sid]).state.error = Val(store[sid]).state.error
    /\ Val(store'[sid]).state.paymentStatus = Val(store[sid]).state.paymentStatus

\* C24: a call of requestCardRevealToken or completeCheckout that returns
\* an error with retryable = true leaves the session's error field and
\* payment status as they were before the call.
C24_RetryableLeavesNoError ==
  [][\A sid \in Sessions :
       /\ \A o \in RevealOutcomesAll :
            (requestCardRevealTokenResult(o).retryable
               /\ requestCardRevealToken(sid, o)) => ErrorUntouched(sid)
       /\ \A o \in BrowserRevealOutcomes, c \in CartIdInputs :
            LET result == completeCheckoutReveal(World, now, sid, o).result
            IN (result # None /\ Val(result).retryable
                  /\ completeCheckout(1, sid, c, o)) => ErrorUntouched(sid)
       /\ \A o \in PageOutcomes :
            (runs[1].sid = sid /\ browserCheckoutResult(1, o).retryable
               /\ browserCheckout(1, o)) => ErrorUntouched(sid)]_vars

\* the policy for one upstream failure: h is what the classifier hands
\* back, before and after are the session's error field around the call
ClassifiedByPolicy(err, h, before, after) ==
  IF err.cls = "NekudaApiError" /\ err.statusCode \in {429, 503}
  THEN h.retryable /\ after = before
  ELSE IF err.cls = "NekudaConnectionError"
  THEN h.retryable /\ after = before
  ELSE IF err.cls = "CardNotFoundError"
  THEN ~h.retryable /\ after = "Card not found"
  ELSE IF err.cls = "AuthenticationError"
  THEN ~h.retryable /\ after = "Payment service authentication failed"
  ELSE IF err.cls = "NekudaValidationError"
  THEN ~h.retryable /\ after # Null /\ after = err.message
  ELSE IF err.cls = "NekudaApiError"
  THEN ~h.retryable /\ after # Null
  ELSE ~h.retryable /\ h.error = err.message /\ after = err.message

LacksField(card) ==
  IF card.isVisaPayment /\ card.visaCredentials # None
  THEN LET vc == Val(card.visaCredentials)
       IN Null \in {vc.cardNumber, vc.expiryMonth, vc.expiryYear, vc.cvv}
  ELSE Null \in {card.cardNumber, card.cardExpiryDate, card.cardCvv}

\* C26: a reveal that lacks the card number, the expiry or the CVV makes
\* the realization stage return INCOMPLETE_CARD_DATA with retryable = true,
\* start no tokenization and no browser checkout, and leave the vault as it
\* was.
C26_IncompleteCardStopsRealization ==
  [][\A sid \in Sessions :
       /\ requestCardRevealToken(sid, [stage |-> "incomplete", err |-> NoError])
            => /\ pmIssued' = pmIssued
               /\ paymentMethodVault' = evictExpired(World, now).vault
       /\ \A c \in CartIdInputs, card \in {x \in CardInputs : LacksField(x)} :
            LET o == [stage |-> "ok", err |-> NoError, card |-> card]
                result == completeCheckoutReveal(World, now, sid, o).result
            IN completeCheckout(1, sid, c, o)
                 => /\ result # None
                    /\ Val(result).error = "INCOMPLETE_CARD_DATA"
                    /\ Val(result).retryable
                    /\ runs' = runs
                    /\ paymentMethodVault' = evictExpired(World, now).vault]_vars

\* C27: a CVV-expired (or CVV-invalid) answer of the wallet authority to the
\* reveal is returned as CVV_EXPIRED, and after it the session has no vault
\* reference, no credentials-revealed flag and no reveal timestamp.
C27_CvvExpiredClearsCredentials ==
  [][\A sid \in Sessions :
       LET o == [stage |-> "reveal", err |-> CvvExpired]
       IN requestCardRevealToken(sid, o)
            => /\ requestCardRevealTokenResult(o).error = "CVV_EXPIRED"
               /\ paymentMethodVault'[sid] = None
               /\ store'[sid] # None =>
                    /\ ~Val(store'[sid]).state.credentialsRevealed
                    /\ Val(store'[sid]).state.credentialsRevealedAt = None]_vars

\* a success payload, or an error object with an error string and a
\* retryable flag
CallerContract(result) ==
  "error" \in result.fields =>
    /\ result.error # Null
    /\ "retryable" \in result.fields
    /\ result.retryable \in BOOLEAN

\* C28: whatever a realization call returns is a success payload or an
\* error object that carries an error string and a boolean retryable flag.
C28_ErrorsCarryRetryable ==
  [][\A sid \in Sessions :
       /\ \A o \in RevealOutcomesAll :
            requestCardRevealToken(sid, o)
              => CallerContract(requestCardRevealTokenResult(o))
       /\ \A c \in CartIdInputs, o \in BrowserRevealOutcomes :
            LET result == completeCheckoutReveal(World, now, sid, o).result
            IN (result # None /\ completeCheckout(1, sid, c, o))
                 => CallerContract(Val(result))
       /\ \A o \in PageOutcomes :
            browserCheckout(1, o) => CallerContract(browserCheckoutResult(1, o))]_vars

(***************************************************************************)
(* Browser teardown                                                        *)
(***************************************************************************)
\* C29: a completeCheckout call that got a browser from getBrowser returns
\* only after that browser is closed, whichever way the call ends.
C29_BrowserClosedOnReturn ==
  [][\A r \in Runs :
       (runs[r].pc # "idle" /\ runs'[r].pc = "idle" /\ runs[r].browser # 0)
         => runs[r].browser \notin browsers']_vars

\* what does hold: a call running alone leaves no browser behind
AloneLeavesNoBrowser ==
  (\A r \in Runs : runs[r].pc = "idle") => browsers = {}

(***************************************************************************)
(* Raw card data                                                           *)
(***************************************************************************)
\* card numbers and CVVs the wallet authority reveals
CardSecrets ==
  UNION {{card.cardNumber, card.cardCvv} : card \in CardInputs}
  \cup UNION {{Val(card.visaCredentials).cardNumber, Val(card.visaCredentials).cvv} :
                card \in {x \in CardInputs : x.visaCredentials # None}}

\* texts that spell out a card number or a CVV
RawCardData == (CardSecrets \ {Null}) \cup {FillTimeout(v) : v \in CardSecrets \ {Null}}

\* C30: no raw card data in what a call returns, in any field of the
\* session state, or in the vault.
C30_NoRawCardData ==
  /\ [](\A sid \in Sessions :
          /\ store[sid] # None =>
               \A f \in {"error", "cartStatus", "mandateStatus", "paymentStatus"} :
                 Val(store[sid]).state[f] \notin RawCardData
          /\ paymentMethodVault[sid] # None =>
               Val(paymentMethodVault[sid]) \in 1..Len(pmIssued))
  /\ [][\A o \in PageOutcomes :
          browserCheckout(1, o) => browserCheckoutResult(1, o).error \notin RawCardData]_vars

(***************************************************************************)
(* Store operations as atomic read-modify-write                            *)
(***************************************************************************)
\* the pending call r as it would run had it read the cart stored now
ReadNow(r) ==
  [r EXCEPT !.cart = IF CartExists(carts, r.cartId)
                     THEN Some(carts[r.cartId]) ELSE None]

\* C31: when a cart operation writes the cart back, what it writes is what
\* the same call makes of the cart as stored at that moment: the operation is
\* one read-modify-write on the key, and no update made between its read and
\* its write is lost.
C31_AtomicReadModifyWrite ==
  [][\A i \in 1..Len(pending) :
       (redisCartSet(i) /\ redisCartApply(pending[i]).error = Null)
         => redisCartApply(pending[i]) = redisCartApply(ReadNow(pending[i]))]_vars

(***************************************************************************)
(* Eviction and in-flight updates                                          *)
(***************************************************************************)
\* the record entry was in the store and unexpired at time t
LiveAt(entry, t) == entry.createdAt <= t /\ ~shouldEvict(entry, t)

\* C32: when the response to a charge arrives for a session whose record was
\* live at the time the charge was submitted, the settlement's update lands
\* on the record: the record is still there afterwards and carries the
\* payment status the settlement wrote.
C32_UpdateNotLostToEviction ==
  [][\A i \in 1..Len(inflight), o \in ProcessorOutcomes :
       ( /\ store[inflight[i].sid] # None
         /\ LiveAt(Val(store[inflight[i].sid]), inflight[i].submittedAt)
         /\ executePaymentSettle(i, o) )
       => /\ store'[inflight[i].sid] # None
          /\ Val(store'[inflight[i].sid]).state.paymentStatus =
               (IF o = "succeeded" THEN "succeeded" ELSE "failed")]_vars

(***************************************************************************)
(* The TTL countdown                                                       *)
(***************************************************************************)
\* the record is past its TTL at time t: more than 30 minutes after it
\* became terminal or, if it never did, more than 60 after it was created
PastTtl(entry, t) ==
  IF entry.completedAt # None
  THEN t > Val(entry.completedAt) + 30
  ELSE t > entry.createdAt + 60

\* C33: the countdown of a session record starts at the first update that
\* leaves its payment status terminal and later updates do not restart it;
\* an access to the store removes exactly the records that are more than 30
\* minutes past that update or, never terminal, more than 60 minutes past
\* their creation, and no record leaves the store earlier.
C33_TtlFromFirstTerminal ==
  /\ [](\A s \in Sessions :
          /\ store[s] # None =>
               (Val(store[s]).completedAt # None
                  <=> Val(store[s]).state.paymentStatus \in {"succeeded", "failed"})
          /\ (evictExpired(World, now).store[s] = None)
               <=> (store[s] = None \/ PastTtl(Val(store[s]), now))
          /\ (getSession(World, now, s) = None)
               <=> (store[s] = None \/ PastTtl(Val(store[s]), now)))
  /\ [][\A s \in Sessions :
          /\ (store[s] # None /\ store'[s] = None) => PastTtl(Val(store[s]), now)
          /\ ( /\ store[s] # None
               /\ store'[s] # None
               /\ Val(store'[s]).completedAt #
                    (IF Val(store[s]).completedAt # None
                     THEN Val(store[s]).completedAt
                     ELSE IF Val(store'[s]).state.paymentStatus \in {"succeeded", "failed"}
                     THEN Some(now) ELSE None) )
             => chatPOST(s)]_vars

\* a record that went terminal and was updated later (a card was realized
\* after the failure), its countdown still running from the terminal update
C33_UpdatedAfterTerminal ==
  \E s \in Sessions :
    /\ store[s] # None
    /\ Val(store[s]).completedAt # None
    /\ Val(store[s]).state.credentialsRevealedAt # None
    /\ Val(Val(store[s]).state.credentialsRevealedAt) > Val(Val(store[s]).completedAt)
    /\ now = Val(Val(store[s]).completedAt) + 30

(***************************************************************************)
(* Cart ownership                                                          *)
(***************************************************************************)
\* C34: addToCart, removeFromCart and checkoutCart called in the session of
\* a user who does not own the cart leave the cart as it was.
C34_ForeignCartUntouched ==
  [][\A sid \in Sessions, c \in 1..Len(carts) :
       carts[c].userId # UserOf(sid) =>
         ( ( \/ \E p \in Products, q \in QtyInputs : addToCart(sid, c, p, q)
             \/ \E p \in Products : removeFromCart(sid, c, p)
             \/ checkoutCart(sid, c) )
           => carts' = carts )]_vars

(***************************************************************************)
(* Magic links are single-use                                              *)
(***************************************************************************)
\* number of sign-ins made with token
Uses(seq, token) == Cardinality({k \in 1..Len(seq) : seq[k] = token})

\* C35: no magic-link token signs a user in more than once.
C35_MagicLinkSingleUse ==
  /\ \A token \in magicLinks : Uses(signIns, token) <= 1
  /\ \A token \in 1..uuids : Uses(signInsStored, token) <= 1

\* the stored form consumes its tokens
StoredLinkSingleUse ==
  \A token \in 1..uuids : Uses(signInsStored, token) <= 1

(***************************************************************************)
(* Charges and mandates                                                    *)
(***************************************************************************)
\* C36: when a charge is created for a checkout, the wallet authority holds
\* a mandate that was created for that checkout, and the amount of the charge
\* is the amount the mandate approved.
C36_ChargeCoveredByMandate ==
  [][\A ch \in charges' \ charges :
       \E k \in 1..Len(mandates) :
         /\ mandates[k].checkoutId = Some(ch.checkoutId)
         /\ mandates[k].price = ch.amount]_vars

\* C37: when two settlements of the same checkout overlap, the stock of each
\* line's product is decremented once in total: a settlement that finds the
\* cart already paid leaves the stock alone.
C37_StockDecrementedOnce ==
  [][\A i \in 1..Len(pending) :
       (/\ redisMarkPaidSet(i)
        /\ CartExists(carts, pending[i].cartId)
        /\ carts[pending[i].cartId].status = "paid")
         => stock' = stock]_vars

\* C38: the teardown at the end of one checkout never closes the browser
\* that another checkout, still driving its page, is using.
C38_TeardownSparesOtherCheckout ==
  [][\A r \in Runs, other \in Runs :
       (/\ other # r
        /\ closeBrowser(r)
        /\ runs[other].pc = "page"
        /\ isConnected(runs[other].browser))
         => runs[other].browser \in browsers']_vars

(***************************************************************************)
(* Line quantities and stock                                               *)
(***************************************************************************)
\* the quantity a cart holds of a product, 0 without a line for it
LineQuantity(cs, cartId, productId) ==
  LET idx == findIndex(cs[cartId].items, productId)
  IN IF idx = 0 THEN 0 ELSE cs[cartId].items[idx].quantity

\* a step in which addItem succeeded for the product on the cart
Added(cartId, productId) ==
  LineQuantity(carts', cartId, productId) > LineQuantity(carts, cartId, productId)

\* C39 as stated: after a successful addItem, the line's quantity is at most
\* the product's stock at that moment.
C39_LineWithinStock ==
  [][\A c \in 1..Len(carts), p \in Products :
       Added(c, p) => LineQuantity(carts', c, p) <= stock[p]]_vars

\* what does hold: the quantity one successful addItem adds is at most the
\* product's stock at that moment
AddedWithinStock ==
  [][\A c \in 1..Len(carts), p \in Products :
       Added(c, p) =>
         LineQuantity(carts', c, p) - LineQuantity(carts, c, p) <= stock[p]]_vars

(***************************************************************************)
(* Failed checkout                                                         *)
(***************************************************************************)
\* C40: a checkout call that fails leaves the cart as it was: status, every
\* line's unit price and total are unchanged.
C40_FailedCheckoutLeavesCart ==
  [][\A sid \in Sessions, c \in CartIdInputs :
       (checkoutCart(sid, c) /\ checkout(carts, c).error # Null)
         => carts' = carts]_vars

\* a cart with a line whose checkout is refused, for its status
C40_CheckoutRefused ==
  \E c \in 1..Len(carts) :
    /\ carts[c].status = "checked_out"
    /\ Len(carts[c].items) = 2
    /\ checkout(carts, c).error = "Cart is already checked out or paid"

====
